---------------------------- MODULE Spec2Model ----------------------------
(***************************************************************************)
(* Model of the two plotting scripts of the repository:                    *)
(*   src/ns-3.42/final1/plot_density_scenario.py  (the "density" script)   *)
(*   src/ns-3.42/scratch/plot_adr_final.py        (the "adr" script)       *)
(*                                                                         *)
(* Conventions.  Decimal quantities (MobilitySpeed, Sigma, MaxRandomLoss)  *)
(* are in hundredths: 3.96 is 396.  A table (pandas DataFrame) is a        *)
(* header, a sequence of column names, and its data, a sequence of rows,   *)
(* each row a sequence of cells aligned with the header.  A cell carries   *)
(* its Python kind: a number, a text that parses as a number, any other    *)
(* text, or NaN.  A number is the fraction n/d (d = 1 for an integer).     *)
(***************************************************************************)
EXTENDS Integers, Sequences, FiniteSets, TLC

VARIABLES
    prog,      \* which script runs: "load" (load_data alone), "density", "adr"
    pc,        \* position of the script in its main()
    loadIn,    \* load_data alone: the file handed to load_data
    loadOut,   \* load_data alone: the table it returned
    args,      \* density script: the parsed command line
    csv,       \* density script: the file named by --csv
    df,        \* density script: the loaded table
    filtered,  \* density script: the result of the last filter_data call
    cwdIsRoot, \* adr script: the current directory is the repository root
    scen,      \* adr script: index of the scenario the loading loop is at
    nfiles,    \* adr script: number of files discovered so far
    found,     \* adr script: the files find_all_summary_paths returned last
    dfs,       \* adr script: scenario name -> its loaded table
    fails,     \* adr script: scenario name -> number of files that failed
    step,      \* what the last step did (filter result, warning, files)
    charts,    \* the line charts drawn by the last step
    out,       \* chart and summary files written so far
    dirs,      \* output directories created so far
    log,       \* messages printed so far
    exc        \* an uncaught exception ended the run

vars == <<prog, pc, loadIn, loadOut, args, csv, df, filtered, cwdIsRoot, scen,
          nfiles, found, dfs, fails, step, charts, out, dirs, log, exc>>

(***************************************************************************)
(* Bounds of the model.                                                    *)
(***************************************************************************)
MaxCols == 2
MaxRows == 2

(***************************************************************************)
(* Python strings.                                                         *)
(***************************************************************************)
Char(s, i) == SubSeq(s, i, i)

\* str.strip() removes these from both ends
IsSpace(c) == c \in {" ", "\t", "\n", "\r"}

RECURSIVE LStrip(_)
LStrip(s) ==
    IF Len(s) > 0 /\ IsSpace(Char(s, 1)) THEN LStrip(SubSeq(s, 2, Len(s))) ELSE s

RECURSIVE RStrip(_)
RStrip(s) ==
    IF Len(s) > 0 /\ IsSpace(Char(s, Len(s)))
    THEN RStrip(SubSeq(s, 1, Len(s) - 1)) ELSE s

Strip(s) == RStrip(LStrip(s))

\* str.replace(' ', '_')
RECURSIVE ReplaceSpaces(_)
ReplaceSpaces(s) ==
    IF Len(s) = 0 THEN ""
    ELSE (IF Char(s, 1) = " " THEN "_" ELSE Char(s, 1))
         \o ReplaceSpaces(SubSeq(s, 2, Len(s)))

LowerChar(c) ==
    CASE c = "A" -> "a" [] c = "B" -> "b" [] c = "C" -> "c" [] c = "D" -> "d"
      [] c = "E" -> "e" [] c = "F" -> "f" [] c = "G" -> "g" [] c = "H" -> "h"
      [] c = "I" -> "i" [] c = "J" -> "j" [] c = "K" -> "k" [] c = "L" -> "l"
      [] c = "M" -> "m" [] c = "N" -> "n" [] c = "O" -> "o" [] c = "P" -> "p"
      [] c = "Q" -> "q" [] c = "R" -> "r" [] c = "S" -> "s" [] c = "T" -> "t"
      [] c = "U" -> "u" [] c = "V" -> "v" [] c = "W" -> "w" [] c = "X" -> "x"
      [] c = "Y" -> "y" [] c = "Z" -> "z" [] OTHER -> c

\* str.lower()
RECURSIVE Lower(_)
Lower(s) ==
    IF Len(s) = 0 THEN ""
    ELSE LowerChar(Char(s, 1)) \o Lower(SubSeq(s, 2, Len(s)))

\* t in s
Contains(s, t) ==
    \E i \in 1..(Len(s) - Len(t) + 1) : SubSeq(s, i, i + Len(t) - 1) = t

(***************************************************************************)
(* Cells and tables.                                                       *)
(***************************************************************************)
Num(n)    == [k |-> "num", s |-> "", n |-> n, d |-> 1]
RECURSIVE GCD(_, _)
GCD(a, b) == IF b = 0 THEN a ELSE GCD(b, a % b)

\* the number n/d (d > 0), in lowest terms
Frac(n, d) ==
    LET g == GCD(IF n < 0 THEN -n ELSE n, d)
    IN  [k |-> "num", s |-> "", n |-> n \div g, d |-> d \div g]
NumTxt(n) == [k |-> "numtxt", s |-> "", n |-> n, d |-> 1]
Txt(s)    == [k |-> "txt", s |-> s, n |-> 0, d |-> 1]
NaN       == [k |-> "nan", s |-> "", n |-> 0, d |-> 1]

\* a column name: a Python str, or another object shown by its repr
StrName(s) == [str |-> TRUE, v |-> s]
ObjName(s) == [str |-> FALSE, v |-> s]

HasCol(t, name) == \E i \in 1..Len(t.columns) : t.columns[i] = StrName(name)

\* df[name]: the position of the column
ColIdx(t, name) ==
    CHOOSE i \in 1..Len(t.columns) :
        /\ t.columns[i] = StrName(name)
        /\ \A j \in 1..(i - 1) : t.columns[j] # StrName(name)

CellOf(t, r, name) == t.data[r][ColIdx(t, name)]

\* df[name] = values (a new column, or the old one overwritten)
SetCol(t, name, values) ==
    IF HasCol(t, name)
    THEN [t EXCEPT !.data = [r \in 1..Len(t.data) |->
                [t.data[r] EXCEPT ![ColIdx(t, name)] = values[r]]]]
    ELSE [columns |-> Append(t.columns, StrName(name)),
          data    |-> [r \in 1..Len(t.data) |-> Append(t.data[r], values[r])]]

(***************************************************************************)
(* plot_adr_final.py: load_data.                                           *)
(***************************************************************************)
COLORS_keys == {"ADR-AVG", "ADR-Lite", "ADR-MAX", "No-ADR"}

\* the loop without strip(): only the spaces are replaced
NormalizeName_NoStrip(c) ==
    IF c.str THEN StrName(ReplaceSpaces(c.v)) ELSE c

\* lines 51-56: one column name of the loop
NormalizeName(c) ==
    IF c.str THEN StrName(ReplaceSpaces(Strip(c.v))) ELSE c

\* lines 50-57
NormalizeColumns(t) ==
    [t EXCEPT !.columns = [i \in 1..Len(t.columns) |-> NormalizeName(t.columns[i])]]

candidates == <<"Algorithm", "algorithm", "Algorithme", "algorithme">>

\* the last candidate column present is copied to alg
CopyCandidate_LastPresent(t) ==
    IF HasCol(t, "alg") THEN t
    ELSE IF \E i \in 1..Len(candidates) : HasCol(t, candidates[i])
    THEN LET i == CHOOSE i \in 1..Len(candidates) :
                      /\ HasCol(t, candidates[i])
                      /\ \A j \in (i + 1)..Len(candidates) : ~HasCol(t, candidates[j])
         IN  SetCol(t, "alg", [r \in 1..Len(t.data) |-> CellOf(t, r, candidates[i])])
    ELSE t

\* lines 60-65: the first candidate column present is copied to alg
CopyCandidate(t) ==
    IF HasCol(t, "alg") THEN t
    ELSE IF \E i \in 1..Len(candidates) : HasCol(t, candidates[i])
    THEN LET i == CHOOSE i \in 1..Len(candidates) :
                      /\ HasCol(t, candidates[i])
                      /\ \A j \in 1..(i - 1) : ~HasCol(t, candidates[j])
         IN  SetCol(t, "alg", [r \in 1..Len(t.data) |-> CellOf(t, r, candidates[i])])
    ELSE t

known_algs == <<"ADR-AVG", "ADR-Lite", "ADR-MAX", "No-ADR", "ADR_AVG", "ADR_MAX", "No_ADR">>

\* lines 72-86: the label found in the file name, "" for None
FoundInName(fname) ==
    IF \E i \in 1..Len(known_algs) : Contains(fname, known_algs[i])
    THEN known_algs[CHOOSE i \in 1..Len(known_algs) :
                       /\ Contains(fname, known_algs[i])
                       /\ \A j \in 1..(i - 1) : ~Contains(fname, known_algs[j])]
    ELSE LET lower == Lower(fname)
         IN  IF Contains(lower, "adr-lite") THEN "ADR-Lite"
             ELSE IF Contains(lower, "adr-avg") \/ Contains(lower, "adr_avg") THEN "ADR-AVG"
             ELSE IF Contains(lower, "adr-max") \/ Contains(lower, "adr_max") THEN "ADR-MAX"
             ELSE IF Contains(lower, "no-adr") \/ Contains(lower, "no_adr") THEN "No-ADR"
             ELSE ""

\* line 88 without its fallback: None is written as it is
LabelFromName_NoFallback(t, fname) ==
    IF HasCol(t, "alg") THEN t
    ELSE SetCol(t, "alg", [r \in 1..Len(t.data) |-> Txt(FoundInName(fname))])

\* lines 68-88
LabelFromName(t, fname) ==
    IF HasCol(t, "alg") THEN t
    ELSE LET found_ == FoundInName(fname)
         IN  SetCol(t, "alg",
                    [r \in 1..Len(t.data) |->
                        Txt(IF found_ # "" THEN found_ ELSE "Unknown")])

\* lines 39-90; f is the file on disk: [name, ok, columns, data]
load_data(f) ==
    LabelFromName(CopyCandidate(NormalizeColumns([columns |-> f.columns, data |-> f.data])),
                  f.name)


(***************************************************************************)
(* Values of the variables a script does not use.                          *)
(***************************************************************************)
NoTable == [columns |-> <<>>, data |-> <<>>]
NoFile  == [name |-> "", ok |-> FALSE, columns |-> <<>>, data |-> <<>>]
NoArgs  == [list |-> FALSE, all |-> FALSE, bar |-> FALSE, no_show |-> FALSE,
            output |-> "", mobility |-> 0, interval |-> 0, loss |-> 0]

ScenSet == {"mobilite", "density", "intervalle_d_envoie", "sigma"}

NoDfs == [s \in ScenSet |-> [loaded |-> FALSE, t |-> NoTable]]

IdleLoad == loadIn = NoFile /\ loadOut = NoTable

NoFails == [s \in ScenSet |-> [found |-> 0, failed |-> 0]]

IdleAdr ==
    /\ cwdIsRoot = FALSE /\ scen = 0 /\ nfiles = 0 /\ found = <<>>
    /\ dfs = NoDfs /\ fails = NoFails /\ charts = {}

(***************************************************************************)
(* load_data alone: the inputs.                                            *)
(***************************************************************************)
NamePrefix == {"ADR", "adr", "No", "summary"}
NameSep    == {"-", "_"}
NameSuffix == {"AVG", "Lite", "lite", "MAX", "ADR", "adr", "run1"}
LoadNames  == {p \o s \o x \o ".csv" : p \in NamePrefix, s \in NameSep, x \in NameSuffix}

RawNames ==
    {StrName("alg"), StrName(" alg "), StrName("Algorithm"), StrName("algorithm"),
     StrName("Algorithme "), StrName("algorithme"), StrName("PDR Percent"),
     StrName("\tNum  Dev "), ObjName("0")}

\* read_csv gives every column its own name: the names stay distinct once normalized
DistinctNames(h) ==
    \A i, j \in 1..Len(h) : i # j => NormalizeName(h[i]) # NormalizeName(h[j])

Headers(maxc) ==
    {h \in UNION {[1..n -> RawNames] : n \in 0..maxc} : DistinctNames(h)}

LabelPool == <<"ADR-AVG", "No-ADR", "foo">>

\* the cells of a file of nr rows and nc columns: the columns differ in every row
LabelData(nr, nc) ==
    [r \in 1..nr |-> [c \in 1..nc |-> Txt(LabelPool[((r + 2 * c) % Len(LabelPool)) + 1])]]

LoadFiles ==
    {[name |-> nm, ok |-> ok, columns |-> h, data |-> LabelData(nr, Len(h))] :
        nm \in LoadNames, ok \in {TRUE}, h \in Headers(MaxCols), nr \in 0..MaxRows}
    \cup {[name |-> nm, ok |-> FALSE, columns |-> <<>>, data |-> <<>>] : nm \in LoadNames}

InitLoad ==
    /\ prog = "load" /\ pc = "start"
    /\ loadIn \in LoadFiles /\ loadOut = NoTable
    /\ args = NoArgs /\ csv = NoFile /\ df = NoTable /\ filtered = NoTable
    /\ step = <<>> /\ out = {} /\ dirs = {} /\ log = <<>> /\ exc = FALSE
    /\ IdleAdr

\* load_data returns the normalized table
LoadData ==
    /\ prog = "load" /\ pc = "start" /\ loadIn.ok
    /\ loadOut' = load_data(loadIn)
    /\ pc' = "done"
    /\ UNCHANGED <<prog, loadIn, args, csv, df, filtered, cwdIsRoot, scen, nfiles,
                   found, dfs, fails, step, charts, out, dirs, log, exc>>

\* line 47: pd.read_csv raises on a file it cannot read
LoadRaises ==
    /\ prog = "load" /\ pc = "start" /\ ~loadIn.ok
    /\ exc' = TRUE
    /\ pc' = "done"
    /\ UNCHANGED <<prog, loadIn, loadOut, args, csv, df, filtered, cwdIsRoot, scen,
                   nfiles, found, dfs, fails, step, charts, out, dirs, log>>

NextLoad == LoadData \/ LoadRaises

SpecLoad == InitLoad /\ [][NextLoad]_vars

(***************************************************************************)
(* C2.  load_data: when, once the names are normalized, the table has no   *)
(* alg column and none of Algorithm, algorithm, Algorithme, algorithme,    *)
(* and the file name holds no known algorithm token, every row of the      *)
(* returned table has alg = 'Unknown'.                                     *)
(***************************************************************************)
KnownTokens == {"adr-avg", "adr-lite", "adr-max", "no-adr", "adr_avg", "adr_max", "no_adr"}

NoKnownToken(fname) == \A t \in KnownTokens : ~Contains(Lower(fname), t)

NoLabelColumn(f) ==
    \A i \in 1..Len(f.columns) :
        NormalizeName(f.columns[i]) \notin
            {StrName(c) : c \in {"alg", "Algorithm", "algorithm", "Algorithme", "algorithme"}}

C2_Case ==
    /\ prog = "load" /\ pc = "done" /\ ~exc
    /\ NoLabelColumn(loadIn) /\ NoKnownToken(loadIn.name)

C2_UnknownFallback ==
    C2_Case =>
        /\ HasCol(loadOut, "alg")
        /\ Len(loadOut.data) = Len(loadIn.data)
        /\ \A r \in 1..Len(loadOut.data) : CellOf(loadOut, r, "alg") = Txt("Unknown")

C2_Witness ==
    /\ C2_Case
    /\ Len(loadIn.columns) > 0
    /\ Len(loadOut.data) >= 2
    /\ \A r \in 1..Len(loadOut.data) : CellOf(loadOut, r, "alg") = Txt("Unknown")

(***************************************************************************)
(* C3.  Column-name normalization: a string name loses its leading and     *)
(* trailing whitespace and has every remaining space replaced by an        *)
(* underscore, any other name is left unchanged, and normalizing the       *)
(* result again changes nothing.                                           *)
(***************************************************************************)
\* r is c without its a leading and b trailing characters, spaces replaced
StrippedAs(c, r, a, b) ==
    LET core == SubSeq(c, a + 1, Len(c) - b)
    IN  /\ \A i \in 1..a : IsSpace(Char(c, i))
        /\ \A i \in (Len(c) - b + 1)..Len(c) : IsSpace(Char(c, i))
        /\ Len(core) > 0 => ~IsSpace(Char(core, 1)) /\ ~IsSpace(Char(core, Len(core)))
        /\ Len(r) = Len(core)
        /\ \A i \in 1..Len(core) :
               Char(r, i) = IF Char(core, i) = " " THEN "_" ELSE Char(core, i)

C3_Case == prog = "load" /\ pc = "done" /\ ~exc

C3_NormalizeIdempotent ==
    C3_Case =>
        \A i \in 1..Len(loadIn.columns) :
            LET c == loadIn.columns[i]
                r == loadOut.columns[i]
            IN  /\ c.str =>
                    /\ r.str
                    /\ \E a, b \in 0..Len(c.v) :
                           a + b <= Len(c.v) /\ StrippedAs(c.v, r.v, a, b)
                /\ ~c.str => r = c
                /\ NormalizeName(r) = r

C3_Witness ==
    /\ C3_Case
    /\ \E i \in 1..Len(loadIn.columns) :
           /\ loadIn.columns[i] = StrName("\tNum  Dev ")
           /\ loadOut.columns[i] = StrName("Num__Dev")
    /\ \E i \in 1..Len(loadIn.columns) : ~loadIn.columns[i].str


(***************************************************************************)
(* Python formatting of numbers in f-strings.                              *)
(***************************************************************************)
\* str of an int
FmtInt(n) == ToString(n)

\* str of the float n.0
FmtWhole(n) == ToString(n) \o ".0"

\* str of a float given in hundredths: 396 is "3.96", 3330 is "33.3", 0 is "0.0"
FmtFloat(h) ==
    LET f == h % 100
    IN  ToString(h \div 100) \o "." \o
        (IF f % 10 = 0 THEN ToString(f \div 10)
         ELSE (IF f < 10 THEN "0" ELSE "") \o ToString(f))

(***************************************************************************)
(* plot_density_scenario.py.                                               *)
(***************************************************************************)
\* series == scalar, one cell: a number equal to x; text and NaN never are
EqScalar(c, x) == c.k = "num" /\ c.n = x * c.d

\* the filter without its third condition
filter_data_NoLoss(t, mobility_speed, traffic_interval, max_random_loss) ==
    [t EXCEPT !.data = SelectSeq(t.data, LAMBDA row :
        /\ EqScalar(row[ColIdx(t, "MobilitySpeed")], mobility_speed)
        /\ EqScalar(row[ColIdx(t, "TrafficInterval")], traffic_interval))]

\* lines 19-26
filter_data(t, mobility_speed, traffic_interval, max_random_loss) ==
    [t EXCEPT !.data = SelectSeq(t.data, LAMBDA row :
        /\ EqScalar(row[ColIdx(t, "MobilitySpeed")], mobility_speed)
        /\ EqScalar(row[ColIdx(t, "TrafficInterval")], traffic_interval)
        /\ EqScalar(row[ColIdx(t, "MaxRandomLoss")], max_random_loss))]

\* lines 93-98: plot_comparison saves one file when output_dir is not empty
plot_comparison_files(mob, traf, loss, output_dir) ==
    IF output_dir # ""
    THEN {output_dir \o "/density_mob" \o mob \o "_traf" \o traf \o "_loss" \o loss \o ".png"}
    ELSE {}

\* lines 152-157
plot_bar_comparison_files(mob, traf, loss, output_dir) ==
    IF output_dir # ""
    THEN {output_dir \o "/density_bar_mob" \o mob \o "_traf" \o traf \o "_loss" \o loss \o ".png"}
    ELSE {}

\* lines 252-254, in hundredths for the two float lists
mobility_speeds   == <<0, 3330, 6000>>
traffic_intervals == <<72, 145, 3600>>
max_random_losses == <<0, 396, 792>>

\* lines 187-189: the combinations in the order of the three nested loops
Combinations ==
    [k \in 1..(Len(mobility_speeds) * Len(traffic_intervals) * Len(max_random_losses)) |->
        [mobility |-> mobility_speeds[((k - 1) \div (Len(traffic_intervals) * Len(max_random_losses))) + 1],
         interval |-> traffic_intervals[(((k - 1) \div Len(max_random_losses)) % Len(traffic_intervals)) + 1],
         loss     |-> max_random_losses[((k - 1) % Len(max_random_losses)) + 1]]]

ComboKey(c) ==
    "mob=" \o FmtFloat(c.mobility) \o ", interval=" \o FmtInt(c.interval)
        \o ", loss=" \o FmtFloat(c.loss)

\* lines 190-208: one combination of generate_all_plots
ComboEvent(t, c, output_dir, include_bar) ==
    LET filtered_df == filter_data(t, c.mobility, c.interval, c.loss)
        empty == Len(filtered_df.data) = 0
        mob == FmtFloat(c.mobility)
        traf == FmtInt(c.interval)
        loss == FmtFloat(c.loss)
    IN  [fn    |-> "generate_all_plots",
         key   |-> ComboKey(c),
         empty |-> empty,
         rows  |-> Len(filtered_df.data),
         msg   |-> IF empty THEN <<"SKIP", ComboKey(c)>> ELSE <<"OK", ComboKey(c)>>,
         files |-> IF empty THEN {}
                   ELSE plot_comparison_files(mob, traf, loss, output_dir)
                        \cup (IF include_bar
                              THEN plot_bar_comparison_files(mob, traf, loss, output_dir)
                              ELSE {})]

\* lines 174-213
generate_all_plots(t, output_dir, include_bar) ==
    [k \in 1..Len(Combinations) |-> ComboEvent(t, Combinations[k], output_dir, include_bar)]

Range(f) == {f[i] : i \in DOMAIN f}

(***************************************************************************)
(* The density script: its inputs.                                         *)
(***************************************************************************)
DensityHeader ==
    <<StrName("Algorithm"), StrName("NumDevices"), StrName("MobilitySpeed"),
      StrName("TrafficInterval"), StrName("MaxRandomLoss"), StrName("PDR_Percent"),
      StrName("AvgEnergy_mJ")>>

DensityRows ==
    {<<Txt(IF i = 3600 THEN "No-ADR" ELSE "ADR-MAX"), Num(100), Num(m), Num(i), l,
       Num(90), Num(10)>> :
        m \in {0, 3330, 3333}, i \in {3600, 72}, l \in {Num(0), NaN}}

DensityFiles ==
    {[name |-> "summaries/summary_scenario1.csv", ok |-> TRUE,
      columns |-> DensityHeader, data |-> d] :
        d \in UNION {[1..n -> DensityRows] : n \in 0..MaxRows}}
    \cup {[name |-> "summaries/summary_scenario1.csv", ok |-> FALSE,
           columns |-> <<>>, data |-> <<>>]}

DensityArgs ==
    [list : BOOLEAN, all : BOOLEAN, bar : BOOLEAN, no_show : BOOLEAN,
     output : {"", "plots"}, mobility : {0, 3330}, interval : {3600}, loss : {0}]

InitDensity ==
    /\ prog = "density" /\ pc = "start"
    /\ args \in DensityArgs /\ csv \in DensityFiles
    /\ df = NoTable /\ filtered = NoTable
    /\ step = <<>> /\ out = {} /\ dirs = {} /\ log = <<>> /\ exc = FALSE
    /\ IdleLoad /\ IdleAdr

\* lines 238-240: read_csv raises when the file is missing
D_Load ==
    /\ prog = "density" /\ pc = "start"
    /\ log' = Append(log, <<"info", "Chargement des donnees depuis: " \o csv.name>>)
    /\ IF csv.ok
       THEN /\ df' = [columns |-> csv.columns, data |-> csv.data]
            /\ pc' = "loaded"
            /\ exc' = FALSE
       ELSE /\ df' = df
            /\ pc' = "done"
            /\ exc' = TRUE
    /\ step' = <<>>
    /\ UNCHANGED <<prog, loadIn, loadOut, args, csv, filtered, cwdIsRoot, scen,
                   nfiles, found, dfs, fails, charts, out, dirs>>

\* the return of line 245 is missing: the run goes on to --all
D_List_NoReturn ==
    /\ prog = "density" /\ pc = "loaded" /\ args.list
    /\ LET ev == IF args.all THEN generate_all_plots(df, args.output, args.bar) ELSE <<>>
           files == UNION {ev[k].files : k \in 1..Len(ev)}
       IN  /\ step' = ev
           /\ out' = out \cup files
           /\ dirs' = IF files # {} THEN dirs \cup {args.output} ELSE dirs
           /\ log' = Append(log, <<"info", "Valeurs disponibles">>)
    /\ pc' = "done"
    /\ UNCHANGED <<prog, loadIn, loadOut, args, csv, df, filtered, cwdIsRoot, scen,
                   nfiles, found, dfs, fails, charts, exc>>

\* lines 243-245
D_List ==
    /\ prog = "density" /\ pc = "loaded" /\ args.list
    /\ log' = Append(log, <<"info", "Valeurs disponibles">>)
    /\ pc' = "done"
    /\ step' = <<>>
    /\ UNCHANGED <<prog, loadIn, loadOut, args, csv, df, filtered, cwdIsRoot, scen,
                   nfiles, found, dfs, fails, charts, out, dirs, exc>>

\* lines 248-258
D_All ==
    /\ prog = "density" /\ pc = "loaded" /\ ~args.list /\ args.all
    /\ LET ev == generate_all_plots(df, args.output, args.bar)
           files == UNION {ev[k].files : k \in 1..Len(ev)}
       IN  /\ step' = ev
           /\ out' = out \cup files
           /\ dirs' = IF files # {} THEN dirs \cup {args.output} ELSE dirs
           /\ log' = Append(log, <<"info", "Valeurs disponibles">>)
                        \o [k \in 1..Len(ev) |-> ev[k].msg]
                        \o << <<"info", "Resume">> >>
    /\ pc' = "done"
    /\ UNCHANGED <<prog, loadIn, loadOut, args, csv, df, filtered, cwdIsRoot, scen,
                   nfiles, found, dfs, fails, charts, exc>>

\* lines 248, 260-269
D_Filter ==
    /\ prog = "density" /\ pc = "loaded" /\ ~args.list /\ ~args.all
    /\ LET filtered_df == filter_data(df, args.mobility, args.interval, args.loss)
           empty == Len(filtered_df.data) = 0
           msg == IF empty THEN <<"ERREUR", "Aucune donnee trouvee">>
                  ELSE <<"info", "Nombre d'enregistrements trouves: "
                                   \o FmtInt(Len(filtered_df.data))>>
       IN  /\ filtered' = filtered_df
           /\ step' = << [fn |-> "main", key |-> "", empty |-> empty,
                          rows |-> Len(filtered_df.data), msg |-> msg, files |-> {}] >>
           /\ log' = log \o << <<"info", "Valeurs disponibles">>, <<"info", "Filtrage">>, msg >>
           /\ pc' = IF empty THEN "done" ELSE "filtered"
    /\ UNCHANGED <<prog, loadIn, loadOut, args, csv, df, cwdIsRoot, scen,
                   nfiles, found, dfs, fails, charts, out, dirs, exc>>

\* lines 271-286: both branches of no_show draw the same charts
D_Plot ==
    /\ prog = "density" /\ pc = "filtered"
    /\ LET mob == FmtFloat(args.mobility)
           traf == FmtWhole(args.interval)
           loss == FmtFloat(args.loss)
           files == plot_comparison_files(mob, traf, loss, args.output)
                    \cup (IF args.bar
                          THEN plot_bar_comparison_files(mob, traf, loss, args.output)
                          ELSE {})
       IN  /\ out' = out \cup files
           /\ dirs' = IF files # {} THEN dirs \cup {args.output} ELSE dirs
           /\ step' = << [fn |-> "plot", key |-> "", empty |-> FALSE,
                          rows |-> Len(filtered.data), msg |-> <<"info", "Tableau">>,
                          files |-> files] >>
           /\ log' = Append(log, <<"info", "Tableau Recapitulatif">>)
    /\ pc' = "done"
    /\ UNCHANGED <<prog, loadIn, loadOut, args, csv, df, filtered, cwdIsRoot, scen,
                   nfiles, found, dfs, fails, charts, exc>>

NextDensity == D_Load \/ D_List \/ D_All \/ D_Filter \/ D_Plot

(***************************************************************************)
(* C1.  filter_data returns exactly the rows of the source whose           *)
(* MobilitySpeed, TrafficInterval and MaxRandomLoss all equal the given    *)
(* values, in their order: its row count is the number of matching rows,   *)
(* no other row is included and no matching row is dropped.                *)
(***************************************************************************)
CellEquals(t, r, name, x) ==
    LET c == CellOf(t, r, name) IN c.k = "num" /\ c.n = x * c.d

Matching(t, m, i, l) ==
    {r \in 1..Len(t.data) :
        /\ CellEquals(t, r, "MobilitySpeed", m)
        /\ CellEquals(t, r, "TrafficInterval", i)
        /\ CellEquals(t, r, "MaxRandomLoss", l)}

\* the k-th smallest element of a set of row numbers
Kth(S, k) == CHOOSE r \in S : Cardinality({q \in S : q < r}) = k - 1

C1_Case == prog = "density" /\ pc \in {"filtered", "done"} /\ Len(step) = 1 /\ step[1].fn = "main"

C1_FilterExact ==
    /\ C1_Case =>
        LET M == Matching(df, args.mobility, args.interval, args.loss)
        IN  /\ filtered.columns = df.columns
            /\ Len(filtered.data) = Cardinality(M)
            /\ \A k \in 1..Len(filtered.data) : filtered.data[k] = df.data[Kth(M, k)]
    /\ (prog = "density" /\ Len(step) > 1) =>
        \A k \in 1..Len(step) :
            step[k].rows = Cardinality(Matching(df, Combinations[k].mobility,
                                Combinations[k].interval, Combinations[k].loss))

C1_Witness ==
    /\ C1_Case
    /\ Len(df.data) = 2
    /\ Len(filtered.data) = 1
    /\ filtered.data[1] = df.data[2]

(***************************************************************************)
(* plot_adr_final.py: pandas operations used by main and the chart steps.  *)
(***************************************************************************)
\* pd.to_numeric(errors='coerce'), one cell
ToNumeric(c) ==
    CASE c.k = "num"    -> c
      [] c.k = "numtxt" -> Num(c.n)
      [] OTHER          -> NaN

\* lines 774-776 and alike: to_numeric on each listed column the table has
ToNumericCols(t, cols) ==
    [t EXCEPT !.data = [r \in 1..Len(t.data) |->
        [c \in 1..Len(t.columns) |->
            IF \E k \in 1..Len(cols) : t.columns[c] = StrName(cols[k])
            THEN ToNumeric(t.data[r][c]) ELSE t.data[r][c]]]]

NumericParams == <<"NumDevices", "TrafficInterval", "Sigma", "MobilitySpeed">>

\* the names of b that a lacks, in b's order, appended to a
RECURSIVE UnionColumns(_, _)
UnionColumns(a, b) ==
    IF Len(b) = 0 THEN a
    ELSE UnionColumns(IF \E i \in 1..Len(a) : a[i] = Head(b) THEN a ELSE Append(a, Head(b)),
                      Tail(b))

\* the rows of t laid out under the header cols, NaN where t has no such column
Reindex(t, cols) ==
    [r \in 1..Len(t.data) |->
        [c \in 1..Len(cols) |->
            IF \E i \in 1..Len(t.columns) : t.columns[i] = cols[c]
            THEN t.data[r][CHOOSE i \in 1..Len(t.columns) : t.columns[i] = cols[c]]
            ELSE NaN]]

\* pd.concat(list, ignore_index=True)
RECURSIVE Concat(_)
Concat(list) ==
    IF Len(list) = 0 THEN NoTable
    ELSE IF Len(list) = 1 THEN list[1]
    ELSE LET rest == Concat(Tail(list))
             cols == UnionColumns(list[1].columns, rest.columns)
         IN  [columns |-> cols,
              data    |-> Reindex(list[1], cols) \o Reindex(rest, cols)]

\* the row numbers of t whose alg is the label a
AlgRows(t, a) == {r \in 1..Len(t.data) : CellOf(t, r, "alg") = Txt(a)}

\* df['alg'].unique(): the labels of the table
UniqueAlgs(t) == {CellOf(t, r, "alg") : r \in 1..Len(t.data)}

\* MARKERS[alg] / COLORS[alg] for every label of the table: KeyError on a label
\* that is no key
LabelKeyError(t) == \E c \in UniqueAlgs(t) : ~(c.k = "txt" /\ c.s \in COLORS_keys)

AddFrac(a, b) == Frac(a.n * b.d + b.n * a.d, a.d * b.d)

\* Series.sum() over the rows R of a numeric column
RECURSIVE SumCells(_, _, _)
SumCells(t, R, metric) ==
    IF R = {} THEN Num(0)
    ELSE LET r == CHOOSE r \in R : TRUE
         IN  AddFrac(CellOf(t, r, metric), SumCells(t, R \ {r}, metric))

\* Series.mean(): NaN is skipped
MeanCells(t, R, metric) ==
    LET V == {r \in R : CellOf(t, r, metric).k = "num"}
        sum == SumCells(t, V, metric)
    IN  IF V = {} THEN NaN ELSE Frac(sum.n, sum.d * Cardinality(V))

\* the mean with a row of the group left out
GroupMean_DropsRow(t, R, param, metric) ==
    {[x |-> key,
      y |-> LET G == {r \in R : CellOf(t, r, param) = key}
            IN  MeanCells(t, G \ {CHOOSE r \in G : \A q \in G : q <= r}, metric)] :
        key \in {CellOf(t, r, param) : r \in R} \ {NaN}}

\* df.groupby(param)[metric].mean(): one point per key, NaN keys dropped
GroupMean(t, R, param, metric) ==
    {[x |-> key,
      y |-> MeanCells(t, {r \in R : CellOf(t, r, param) = key}, metric)] :
        key \in {CellOf(t, r, param) : r \in R} \ {NaN}}

Algs == <<"ADR-AVG", "ADR-Lite", "ADR-MAX", "No-ADR">>

\* the loop "for alg in [...]: if alg not in unique: continue; grp = ...;
\* if grp.empty: continue; plot": the points drawn, per algorithm
Series(t, param, metric) ==
    UNION {{[alg |-> Algs[a], x |-> p.x, y |-> p.y] :
                p \in GroupMean(t, AlgRows(t, Algs[a]), param, metric)} :
           a \in 1..Len(Algs)}

\* the loop "for alg in df['alg'].unique()" of the four-panel charts
SeriesAllLabels(t, param, metric) ==
    UNION {{[alg |-> c.s, x |-> p.x, y |-> p.y] :
                p \in GroupMean(t, {r \in 1..Len(t.data) : CellOf(t, r, "alg") = c},
                                param, metric)} :
           c \in UniqueAlgs(t)}

\* the rows that satisfy every (column == value) of conds
FilterEq(t, conds) ==
    [t EXCEPT !.data = SelectSeq(t.data, LAMBDA row :
        \A k \in 1..Len(conds) : EqScalar(row[ColIdx(t, conds[k].col)], conds[k].val))]

MissingCol(t, names) == \E k \in 1..Len(names) : ~HasCol(t, names[k])

(***************************************************************************)
(* plot_adr_final.py: the chart functions.  Each returns what the call     *)
(* did: whether it raised, the files it saved, the messages it printed,    *)
(* one event per filter it applied, and the line charts it drew.           *)
(***************************************************************************)
Res(e, files, msgs, events, chts) ==
    [exc |-> e, files |-> files, msgs |-> msgs, events |-> events, charts |-> chts]

Event(fn, key, empty, rows, msg, files) ==
    [fn |-> fn, key |-> key, empty |-> empty, rows |-> rows, msg |-> msg, files |-> files]

Cond(col, val) == [col |-> col, val |-> val]

\* the messages "Graphique sauvegarde: <file>" of the files saved, in order
Saved(files_seq, files) ==
    LET kept == SelectSeq(files_seq, LAMBDA f : f \in files)
    IN  [k \in 1..Len(kept) |-> <<"saved", kept[k]>>]

LineChart(fn, file, t, param, metric) ==
    [fn |-> fn, file |-> file, param |-> param, metric |-> metric,
     subset |-> t, points |-> Series(t, param, metric)]

LabelChart(fn, file, t, param, metric) ==
    [fn |-> fn, file |-> file, param |-> param, metric |-> metric,
     subset |-> t, points |-> SeriesAllLabels(t, param, metric)]

PDR    == "PDR_Percent"
Energy == "AvgEnergy_mJ"

\* a filter that found no row goes on to draw and save
PairOfCharts_NoEmptyCheck(fn, key, flt, param, pdrFile, energyFile, warn, mode) ==
    LET pdr == LineChart(fn, pdrFile, flt, param, PDR)
        en == LineChart(fn, energyFile, flt, param, Energy)
        files == {pdrFile, energyFile}
    IN  Res(FALSE, files, Saved(<<pdrFile, energyFile>>, files),
            << Event(fn, key, Len(flt.data) = 0, Len(flt.data), <<"ok", fn>>, files) >>,
            {pdr, en})

\* The body shared by the functions that draw a PDR chart and an energy chart
\* from a filtered table flt (e.g. lines 1008-1076).  mode is "always" (both
\* files are saved, lines 510-578), "each" (a chart is saved when a curve was
\* plotted, lines 1027-1044) or "chain" (no PDR curve skips the energy chart
\* too, lines 1535-1537).
PairOfCharts(fn, key, flt, param, pdrFile, energyFile, warn, mode) ==
    LET empty == Len(flt.data) = 0
        some == \E a \in 1..Len(Algs) : AlgRows(flt, Algs[a]) # {}
        pdrErr == some /\ MissingCol(flt, <<param, PDR>>)
        enErr == some /\ MissingCol(flt, <<param, Energy>>)
        pdr == LineChart(fn, pdrFile, flt, param, PDR)
        en == LineChart(fn, energyFile, flt, param, Energy)
        pdrSaved == ~pdrErr /\ (mode = "always" \/ pdr.points # {})
        enTried == ~pdrErr /\ (mode # "chain" \/ pdr.points # {})
        enSaved == enTried /\ ~enErr /\ (mode = "always" \/ en.points # {})
        files == (IF pdrSaved THEN {pdrFile} ELSE {}) \cup (IF enSaved THEN {energyFile} ELSE {})
    IN  IF empty
        THEN Res(FALSE, {}, << <<"warn", warn>> >>,
                 << Event(fn, key, TRUE, 0, <<"warn", warn>>, {}) >>, {})
        ELSE Res(pdrErr \/ (enTried /\ enErr), files,
                 Saved(<<pdrFile, energyFile>>, files),
                 << Event(fn, key, FALSE, Len(flt.data), <<"ok", fn>>, files) >>,
                 (IF pdrSaved THEN {pdr} ELSE {}) \cup (IF enSaved THEN {en} ELSE {}))

\* a filter on fixed values, then the two charts; a column of the filter that
\* the table lacks is a KeyError
FixedCharts(fn, key, t, conds, param, pdrFile, energyFile, warn, mode) ==
    IF MissingCol(t, [k \in 1..Len(conds) |-> conds[k].col])
    THEN Res(TRUE, {}, <<>>, <<>>, {})
    ELSE PairOfCharts(fn, key, FilterEq(t, conds), param, pdrFile, energyFile, warn, mode)

\* lines 498-504: MobilitySpeed == 0 when the column exists, else the whole table
Mobility0(t) ==
    IF HasCol(t, "MobilitySpeed")
    THEN FilterEq(ToNumericCols(t, <<"MobilitySpeed">>), <<Cond("MobilitySpeed", 0)>>)
    ELSE t

\* lines 490-578
plot_density_impact_mobility0(t) ==
    PairOfCharts("plot_density_impact_mobility0", "", Mobility0(t), "NumDevices",
                 "output/pdr_density_mob0.png", "output/energy_density_mob0.png",
                 "Pas de donnees avec MobilitySpeed == 0 pour l'impact densite", "always")

\* lines 581-667
plot_traffic_impact_mobility0(t) ==
    PairOfCharts("plot_traffic_impact_mobility0", "", Mobility0(t), "TrafficInterval",
                 "output/pdr_traffic_mob0.png", "output/energy_traffic_mob0.png",
                 "Pas de donnees avec MobilitySpeed == 0 pour l'impact trafic", "always")

\* lines 670-752
plot_sigma_impact_mobility0(t) ==
    PairOfCharts("plot_sigma_impact_mobility0", "", Mobility0(t), "Sigma",
                 "output/pdr_sigma_mob0.png", "output/energy_sigma_mob0.png",
                 "Pas de donnees avec MobilitySpeed == 0 pour l'impact sigma", "always")

\* lines 762-776: every loaded table, concatenated, its parameters made numeric
AllDf(d, order) ==
    LET loaded == SelectSeq(order, LAMBDA sc : d[sc].loaded)
    IN  ToNumericCols(Concat([k \in 1..Len(loaded) |-> d[loaded[k]].t]), NumericParams)

\* lines 755-868
plot_traffic_impact_fixed_params(all_df) ==
    FixedCharts("plot_traffic_impact_fixed_params", "", all_df,
                <<Cond("MobilitySpeed", 0), Cond("NumDevices", 550), Cond("Sigma", 396)>>,
                "TrafficInterval",
                "output/traffic_pdr_mobility0_density550_sigma3.96.png",
                "output/traffic_energy_mobility0_density550_sigma3.96.png",
                "Pas de donnees pour MobilitySpeed=0, NumDevices=550, Sigma=3.96", "each")

\* lines 871-970
plot_sigma_impact_fixed_params(all_df) ==
    FixedCharts("plot_sigma_impact_fixed_params", "", all_df,
                <<Cond("MobilitySpeed", 0), Cond("NumDevices", 550), Cond("TrafficInterval", 3600)>>,
                "Sigma",
                "output/sigma_pdr_mobility0_density550_traffic3600.png",
                "output/sigma_energy_mobility0_density550_traffic3600.png",
                "Pas de donnees pour MobilitySpeed=0, NumDevices=550, TrafficInterval=3600", "each")

\* lines 973-1076
plot_density_impact_fixed_params(all_df) ==
    FixedCharts("plot_density_impact_fixed_params", "", all_df,
                <<Cond("MobilitySpeed", 0), Cond("TrafficInterval", 3600), Cond("Sigma", 396)>>,
                "NumDevices",
                "output/density_pdr_mobility0_traffic3600_sigma3.96.png",
                "output/density_energy_mobility0_traffic3600_sigma3.96.png",
                "Pas de donnees pour MobilitySpeed=0, TrafficInterval=3600s, Sigma=3.96", "each")

\* lines 1079-1171; the table is made numeric in place first (lines 1086-1089)
plot_density_scenario_specific(t) ==
    FixedCharts("plot_density_scenario_specific", "", ToNumericCols(t, NumericParams),
                <<Cond("MobilitySpeed", 0), Cond("TrafficInterval", 3600), Cond("Sigma", 396)>>,
                "NumDevices",
                "output/density_scenario_pdr_mobility0_traffic3600_sigma3.96.png",
                "output/density_scenario_energy_mobility0_traffic3600_sigma3.96.png",
                "Pas de donnees pour le scenario density", "each")

\* lines 1174-1262; num_devices = 1000 at line 1188
plot_sigma_scenario_specific(t) ==
    FixedCharts("plot_sigma_scenario_specific", "", ToNumericCols(t, NumericParams),
                <<Cond("MobilitySpeed", 0), Cond("NumDevices", 1000), Cond("TrafficInterval", 3600)>>,
                "Sigma",
                "output/sigma_scenario_pdr_mobility0_density1000_traffic3600.png",
                "output/sigma_scenario_energy_mobility0_density1000_traffic3600.png",
                "Pas de donnees pour le scenario sigma", "each")

\* lines 1265-1369; densities = [1000] at line 1282
plot_traffic_scenario_specific(t) ==
    FixedCharts("plot_traffic_scenario_specific", "1000", ToNumericCols(t, NumericParams),
                <<Cond("MobilitySpeed", 0), Cond("NumDevices", 1000), Cond("Sigma", 396)>>,
                "TrafficInterval",
                "output/traffic_scenario_pdr_mobility0_density1000_sigma3.96.png",
                "output/traffic_scenario_energy_mobility0_density1000_sigma3.96.png",
                "Pas de donnees pour le scenario intervalle_d_envoie", "each")

\* lines 1372-1472; mobility_speed = 0 at line 1385
plot_traffic_scenario_mobility33(t) ==
    FixedCharts("plot_traffic_scenario_mobility33", "", ToNumericCols(t, NumericParams),
                <<Cond("MobilitySpeed", 0), Cond("NumDevices", 1000), Cond("Sigma", 396)>>,
                "TrafficInterval",
                "output/traffic_scenario_pdr_mobility0_density1000_sigma3.96.png",
                "output/traffic_scenario_energy_mobility0_density1000_sigma3.96.png",
                "Pas de donnees pour le scenario intervalle_d_envoie", "each")

\* a configuration without data ends the loop
RECURSIVE MobilityConfigs_StopsAtEmpty(_, _)
MobilityConfigs_StopsAtEmpty(all_df, nds) ==
    IF Len(nds) = 0 THEN Res(FALSE, {}, <<>>, <<>>, {})
    ELSE LET nd == FmtInt(Head(nds))
             one == FixedCharts("plot_mobility_impact_specific_params", nd, all_df,
                        <<Cond("NumDevices", Head(nds)), Cond("TrafficInterval", 3600),
                          Cond("Sigma", 396)>>,
                        "MobilitySpeed",
                        "output/pdr_mobility_" \o nd \o "nodes_3600s_396sigma.png",
                        "output/energy_mobility_" \o nd \o "nodes_3600s_396sigma.png",
                        "Pas de donnees pour la configuration: " \o nd, "chain")
             rest == MobilityConfigs_StopsAtEmpty(all_df, Tail(nds))
         IN  IF one.exc \/ one.events[1].empty THEN one
             ELSE Res(rest.exc, one.files \cup rest.files, one.msgs \o rest.msgs,
                      one.events \o rest.events, one.charts \cup rest.charts)

\* lines 1475-1582: one filter per configuration, a PDR chart and an energy
\* chart for each; a raise ends the loop
RECURSIVE MobilityConfigs(_, _)
MobilityConfigs(all_df, nds) ==
    IF Len(nds) = 0 THEN Res(FALSE, {}, <<>>, <<>>, {})
    ELSE LET nd == FmtInt(Head(nds))
             one == FixedCharts("plot_mobility_impact_specific_params", nd, all_df,
                        <<Cond("NumDevices", Head(nds)), Cond("TrafficInterval", 3600),
                          Cond("Sigma", 396)>>,
                        "MobilitySpeed",
                        "output/pdr_mobility_" \o nd \o "nodes_3600s_396sigma.png",
                        "output/energy_mobility_" \o nd \o "nodes_3600s_396sigma.png",
                        "Pas de donnees pour la configuration: " \o nd, "chain")
             rest == MobilityConfigs(all_df, Tail(nds))
         IN  IF one.exc THEN one
             ELSE Res(rest.exc, one.files \cup rest.files, one.msgs \o rest.msgs,
                      one.events \o rest.events, one.charts \cup rest.charts)

plot_mobility_impact_specific_params(all_df) ==
    MobilityConfigs(all_df, <<100, 550, 1000>>)

\* lines 137-144
param_map(scenario_name) ==
    CASE scenario_name = "mobilite"            -> "MobilitySpeed"
      [] scenario_name = "density"             -> "NumDevices"
      [] scenario_name = "intervalle_d_envoie" -> "TrafficInterval"
      [] scenario_name = "sigma"               -> "Sigma"
      [] OTHER                                 -> "MobilitySpeed"

\* A four-panel chart whose curves loop over df['alg'].unique() and index
\* MARKERS/COLORS by the label (lines 152-156, 459-463, 1597-1601): a KeyError
\* on a column the table lacks or on a label that is no key; else one file.
LabelCharts(fn, file, t, param, metrics) ==
    IF Len(t.data) > 0 /\ (MissingCol(t, <<param>> \o metrics) \/ LabelKeyError(t))
    THEN Res(TRUE, {}, <<>>, <<>>, {})
    ELSE Res(FALSE, {file}, << <<"saved", file>> >>, <<>>,
             {LabelChart(fn, file, t, param, metrics[m]) : m \in 1..Len(metrics)})

\* lines 126-246
plot_pdr_energy_by_scenario(t, scenario_name) ==
    LabelCharts("plot_pdr_energy_by_scenario",
                "output/analyse_complete_" \o scenario_name \o ".png",
                t, param_map(scenario_name), <<PDR, Energy>>)

\* lines 444-487
plot_sigma_impact(t) ==
    LabelCharts("plot_sigma_impact", "output/impact_sigma.png", t, "Sigma", <<PDR, Energy>>)

Inf == [k |-> "inf", s |-> "", n |-> 0, d |-> 1]

\* PDR_Percent / AvgEnergy_mJ, one row
DivCells(p, e) ==
    IF p.k # "num" \/ e.k # "num" THEN NaN
    ELSE IF e.n # 0 THEN Frac(p.n * e.d, p.d * e.n)
    ELSE IF p.n # 0 THEN Inf ELSE NaN

\* line 403: df['Efficiency'] = ..., written into the caller's table
WithEfficiency(t) ==
    SetCol(t, "Efficiency",
           [r \in 1..Len(t.data) |-> DivCells(CellOf(t, r, PDR), CellOf(t, r, Energy))])

\* lines 1585-1665; the fourth panel computes Efficiency on a copy
plot_traffic_interval_analysis(t) ==
    IF Len(t.data) > 0 /\ MissingCol(t, <<"TrafficInterval", PDR, Energy, "SuccessfulPackets">>)
    THEN Res(TRUE, {}, <<>>, <<>>, {})
    ELSE LabelCharts("plot_traffic_interval_analysis", "output/analyse_traffic_interval.png",
                     WithEfficiency(t), "TrafficInterval",
                     <<PDR, Energy, "SuccessfulPackets", "Efficiency">>)

\* lines 396-441: a bar per label, coloured by COLORS[alg]
plot_energy_efficiency(t, scenario_name) ==
    LET file == "output/efficacite_energetique_" \o scenario_name \o ".png"
    IN  IF MissingCol(t, <<PDR, Energy>>) \/ LabelKeyError(t) THEN Res(TRUE, {}, <<>>, <<>>, {})
        ELSE Res(FALSE, {file}, << <<"saved", file>> >>, <<>>, {})

\* Series.nunique(): the distinct values of a column, NaN not counted
NUnique(t, col) == Cardinality({CellOf(t, r, col) : r \in 1..Len(t.data)} \ {NaN})

\* lines 308-356
plot_heatmap_pdr(t, scenario_name) ==
    LET file == "output/heatmap_packet_delivery_rate_" \o scenario_name \o ".png"
        cols == <<"MobilitySpeed", "NumDevices", "TrafficInterval", "Sigma">>
        warn == <<"warn", "Pas assez de parametres variables pour creer une heatmap pour "
                           \o scenario_name>>
    IN  IF MissingCol(t, cols) THEN Res(TRUE, {}, <<>>, <<>>, {})
        ELSE IF Cardinality({k \in 1..4 : NUnique(t, cols[k]) > 1}) < 2
        THEN Res(FALSE, {}, <<warn>>, <<>>, {})
        ELSE IF MissingCol(t, <<PDR>>) THEN Res(TRUE, {}, <<>>, <<>>, {})
        ELSE Res(FALSE, {file}, << <<"saved", file>> >>, <<>>, {})

\* lines 1730-1732: the rows whose listed cells are all numbers (dropna)
DropNa(t, cols) ==
    [t EXCEPT !.data = SelectSeq(t.data, LAMBDA row :
        \A k \in 1..Len(cols) : row[ColIdx(t, cols[k])].k = "num")]

metrics  == <<PDR, Energy>>
x_params == <<"NumDevices", "TrafficInterval", "Sigma", "MobilitySpeed">>

\* lines 1720-1779, one (scenario, metric, x)
MetricVsX(t, scenario_name, metric, x) ==
    LET file == "output/" \o scenario_name \o "_" \o metric \o "_vs_" \o x \o ".png"
        c == LineChart("plot_per_scenario_metric_vs_x", file,
                       DropNa(ToNumericCols(t, <<x, metric>>), <<x, metric>>), x, metric)
    IN  IF MissingCol(t, <<x, metric>>) \/ c.points = {} THEN {} ELSE {c}

\* lines 1705-1780
plot_per_scenario_metric_vs_x(d, order) ==
    LET cs == UNION {MetricVsX(d[order[i]].t, order[i], metrics[m], x_params[x]) :
                        i \in {j \in 1..Len(order) : d[order[j]].loaded},
                        m \in 1..Len(metrics), x \in 1..Len(x_params)}
        files == {c.file : c \in cs}
    IN  Res(FALSE, files, <<>>, <<>>, cs)

\* lines 1668-1702: one histogram per scenario and metric the table has
plot_histograms_per_scenario(d, order) ==
    Res(FALSE,
        {"output/hist_" \o order[p[1]] \o "_" \o metrics[p[2]] \o ".png" :
            p \in {q \in (1..Len(order)) \X (1..Len(metrics)) :
                      d[order[q[1]]].loaded /\ HasCol(d[order[q[1]]].t, metrics[q[2]])}},
        <<>>, <<>>, {})

\* lines 249-305
plot_parameter_comparison(d, order) ==
    IF \E i \in 1..Len(order) :
          d[order[i]].loaded /\ MissingCol(d[order[i]].t, <<PDR, Energy>>)
    THEN Res(TRUE, {}, <<>>, <<>>, {})
    ELSE Res(FALSE, {"output/comparaison_scenarios.png"},
             << <<"saved", "output/comparaison_scenarios.png">> >>, <<>>, {})

\* the summary has a row for every record of a table, not for every label
generate_summary_table_RowPerRecord(d, order) ==
    LET file == "output/resume_performances.csv"
        RowsOf(sc) ==
            LET t == d[sc].t
            IN  [k \in 1..Len(t.data) |->
                    Event("generate_summary_table", sc, FALSE, 1,
                          <<"row", CellOf(t, k, "alg").s>>, {file})]
        RECURSIVE Table(_)
        Table(k) == IF k > Len(order) THEN <<>>
                    ELSE (IF d[order[k]].loaded THEN RowsOf(order[k]) ELSE <<>>)
                         \o Table(k + 1)
    IN  IF \E i \in 1..Len(order) :
              /\ d[order[i]].loaded /\ Len(d[order[i]].t.data) > 0
              /\ MissingCol(d[order[i]].t, <<PDR, Energy>>)
        THEN Res(TRUE, {}, <<>>, <<>>, {})
        ELSE Res(FALSE, {file}, << <<"saved", file>> >>, Table(1), {})

\* lines 1783-1808.  summary_df, returned and written to the CSV, is the
\* sequence of events: one per row, with its scenario, its label and the number
\* of records averaged; the labels of a table come in the order of unique()
generate_summary_table(d, order) ==
    LET file == "output/resume_performances.csv"
        RowsOf(sc) ==
            LET t == d[sc].t
                firsts == SelectSeq([r \in 1..Len(t.data) |-> r], LAMBDA r :
                              \A q \in 1..(r - 1) : CellOf(t, q, "alg") # CellOf(t, r, "alg"))
            IN  [k \in 1..Len(firsts) |->
                    Event("generate_summary_table", sc, FALSE,
                          Cardinality({r \in 1..Len(t.data) :
                                          CellOf(t, r, "alg") = CellOf(t, firsts[k], "alg")}),
                          <<"row", CellOf(t, firsts[k], "alg").s>>, {file})]
        RECURSIVE Table(_)
        Table(k) == IF k > Len(order) THEN <<>>
                    ELSE (IF d[order[k]].loaded THEN RowsOf(order[k]) ELSE <<>>)
                         \o Table(k + 1)
    IN  IF \E i \in 1..Len(order) :
              /\ d[order[i]].loaded /\ Len(d[order[i]].t.data) > 0
              /\ MissingCol(d[order[i]].t, <<PDR, Energy>>)
        THEN Res(TRUE, {}, <<>>, <<>>, {})
        ELSE Res(FALSE, {file}, << <<"saved", file>> >>, Table(1), {})

(***************************************************************************)
(* plot_adr_final.py: the files on disk.                                   *)
(***************************************************************************)
\* the most CSV files on disk, over all scenarios
MaxFiles == 2

\* lines 1819-1824: the scenarios, in the order of the dict
Scenarios == <<"mobilite", "density", "intervalle_d_envoie", "sigma">>

AdrHeader(label) ==
    (IF label = "" THEN <<>> ELSE <<StrName(label)>>)
    \o <<StrName("NumDevices"), StrName("MobilitySpeed"), StrName("TrafficInterval"),
         StrName("Sigma"), StrName("PDR Percent"), StrName(" AvgEnergy_mJ"),
         StrName("SuccessfulPackets")>>

\* the CSV contents a summary file may have: one with an Algorithm column, one
\* with an Algorithme column and a textual speed, two with no label column,
\* and one that cannot be read
BodyIds == {"A", "B", "U", "V", "X"}

Body(id) ==
    CASE id = "A" ->
           [tag |-> "run1", ok |-> TRUE, columns |-> AdrHeader("Algorithm"),
            data |-> << <<Txt("ADR-AVG"), Num(550), Num(0), Num(3600), Num(396),
                          Num(90), Num(10), Num(5)>>,
                        <<Txt("ADR-AVG"), Num(550), Num(0), Num(3600), Num(396),
                          Num(80), Num(30), Num(7)>>,
                        <<Txt("No-ADR"), Num(1000), Num(0), Num(3600), Num(396),
                          Num(60), Num(30), Num(3)>> >>]
      [] id = "B" ->
           [tag |-> "run2", ok |-> TRUE, columns |-> AdrHeader("Algorithme "),
            data |-> << <<Txt("ADR-Lite"), Num(1000), NumTxt(3333), Num(3600), Num(792),
                          Num(70), NaN, Num(4)>>,
                        <<Txt("ADR-Lite"), Num(1000), Txt("fast"), Num(3600), Num(792),
                          Num(50), Num(25), Num(4)>> >>]
      [] id = "U" ->
           [tag |-> "run3", ok |-> TRUE, columns |-> AdrHeader(""),
            data |-> << <<Num(550), Num(0), Num(3600), Num(396),
                          Num(75), Num(15), Num(6)>> >>]
      [] id = "V" ->
           [tag |-> "ADR-MAX", ok |-> TRUE, columns |-> AdrHeader(""),
            data |-> << <<Num(100), Num(3333), Num(3600), Num(396),
                          Num(40), Num(40), Num(2)>> >>]
      [] OTHER ->
           [tag |-> "bad", ok |-> FALSE, columns |-> <<>>, data |-> <<>>]

Locs == {"cwd", "resultsfinal", "resultsfinal2"}

\* the file of a scenario at a place, "" where there is none
FileAt(scenario, id) ==
    IF id = "" THEN NoFile
    ELSE [name |-> "summary_" \o scenario \o "_" \o Body(id).tag \o ".csv",
          ok |-> Body(id).ok, columns |-> Body(id).columns, data |-> Body(id).data]

\* what the disk holds for one scenario: at most one file in the working
\* directory and one in each summaries/<scenario>/ directory, most files in all
DiskViews(most) ==
    {d \in [Locs -> BodyIds \cup {""}] : Cardinality({l \in Locs : d[l] # ""}) <= most}

FilesOf(d) == Cardinality({l \in Locs : d[l] # ""})

\* Path(__file__).resolve().parent.parent
repo_root == "/ns-3.42"

EndsWith(s, t) == Len(s) >= Len(t) /\ SubSeq(s, Len(s) - Len(t) + 1, Len(s)) = t

\* glob('*<scenario>*.csv') on a file name
GlobMatch(name, scenario) ==
    \E i \in 1..(Len(name) - Len(scenario) - 3) :
        /\ SubSeq(name, i, i + Len(scenario) - 1) = scenario
        /\ EndsWith(name, ".csv")

\* every path found is kept, seen before or not
Dedupe_KeepsAll(paths, seen) == paths

\* lines 381-387
RECURSIVE Dedupe(_, _)
Dedupe(paths, seen) ==
    IF Len(paths) = 0 THEN <<>>
    ELSE IF Head(paths).path \in seen THEN Dedupe(Tail(paths), seen)
    ELSE <<Head(paths)>> \o Dedupe(Tail(paths), seen \cup {Head(paths).path})

\* lines 359-393; d is the disk as seen for the scenario, root tells whether
\* the working directory is the repository root
find_all_summary_paths(scenario, d, root) ==
    LET Entry(prefix, id) == [path |-> prefix \o FileAt(scenario, id).name,
                              file |-> FileAt(scenario, id)]
        cwd == IF d["cwd"] # "" /\ GlobMatch(FileAt(scenario, d["cwd"]).name, scenario)
               THEN <<Entry("", d["cwd"])>> ELSE <<>>
        Rel(b) == b \o "/summaries/"
        Abs(b) == repo_root \o "/" \o b \o "/summaries/"
        AltGlob(b, base, exists) ==
            IF exists /\ d[b] # "" /\ EndsWith(FileAt(scenario, d[b]).name, ".csv")
            THEN <<Entry(base \o scenario \o "/", d[b])>> ELSE <<>>
        RGlob(b, base, exists) ==
            IF exists /\ d[b] # "" /\ GlobMatch(FileAt(scenario, d[b]).name, scenario)
            THEN <<Entry(base \o scenario \o "/", d[b])>> ELSE <<>>
        Base(b) == AltGlob(b, Rel(b), root) \o AltGlob(b, Abs(b), TRUE)
                   \o RGlob(b, Rel(b), root) \o RGlob(b, Abs(b), TRUE)
    IN  Dedupe(cwd \o Base("resultsfinal") \o Base("resultsfinal2"), {})

(***************************************************************************)
(* plot_adr_final.py: main, lines 1811-1947.                               *)
(***************************************************************************)
InitAdr ==
    /\ prog = "adr" /\ pc = "discover"
    /\ cwdIsRoot \in BOOLEAN /\ scen = 1 /\ nfiles = 0 /\ found = <<>>
    /\ dfs = NoDfs /\ fails = NoFails /\ charts = {}
    /\ args = NoArgs /\ csv = NoFile /\ df = NoTable /\ filtered = NoTable
    /\ step = <<>> /\ out = {} /\ dirs = {} /\ exc = FALSE
    /\ log = << <<"info", "Chargement des donnees...">> >>
    /\ IdleLoad

\* the loop of lines 1829-1857 moves to the next scenario, or ends
AfterScenario == IF scen = Len(Scenarios) THEN "check" ELSE "discover"

\* lines 1831-1834: the CSVs of the scenario are looked up; none found prints
\* a message and goes on with the next scenario
A_Discover ==
    /\ prog = "adr" /\ pc = "discover"
    /\ \E d \in DiskViews(MaxFiles - nfiles) :
          /\ nfiles' = nfiles + FilesOf(d)
          /\ found' = find_all_summary_paths(Scenarios[scen], d, cwdIsRoot)
    /\ IF Len(found') = 0
       THEN /\ log' = Append(log, <<"notfound", "Aucun fichier trouve pour le scenario '"
                                                 \o Scenarios[scen] \o "'">>)
            /\ scen' = IF scen = Len(Scenarios) THEN scen ELSE scen + 1
            /\ pc' = AfterScenario
       ELSE /\ log' = log
            /\ scen' = scen
            /\ pc' = "load"
    /\ UNCHANGED <<prog, loadIn, loadOut, args, csv, df, filtered, cwdIsRoot, dfs,
                   fails, step, charts, out, dirs, exc>>

\* the loop over the found paths ends at the first path that fails to load
df_list_StopsAtFailure(paths) ==
    LET bad == {k \in 1..Len(paths) : ~paths[k].file.ok}
        upto == IF bad = {} THEN Len(paths) ELSE (CHOOSE k \in bad : \A j \in bad : k <= j) - 1
    IN  [k \in 1..upto |-> load_data(paths[k].file)]

\* lines 1841-1848: load_data on each found path, a raise caught per path
df_list(paths) ==
    LET good == SelectSeq(paths, LAMBDA e : e.file.ok)
    IN  [k \in 1..Len(good) |-> load_data(good[k].file)]

failed_paths(paths) == SelectSeq(paths, LAMBDA e : ~e.file.ok)

RECURSIVE total_rows(_)
total_rows(list) ==
    IF Len(list) = 0 THEN 0 ELSE Len(Head(list).data) + total_rows(Tail(list))

\* lines 1837-1857
A_Load ==
    /\ prog = "adr" /\ pc = "load"
    /\ LET scenario == Scenarios[scen]
           list == df_list(found)
           failed == failed_paths(found)
       IN  /\ fails' = [fails EXCEPT ![scenario] =
                           [found |-> Len(found), failed |-> Len(failed)]]
           /\ IF Len(list) > 0
              THEN /\ dfs' = [dfs EXCEPT ![scenario] = [loaded |-> TRUE, t |-> Concat(list)]]
                   /\ log' = log
                        \o << <<"ok", FmtInt(Len(list)) \o " fichiers charges pour le scenario '"
                                      \o scenario \o "' (" \o FmtInt(total_rows(list))
                                      \o " lignes au total)">> >>
                        \o (IF Len(failed) > 0
                            THEN << <<"warn", FmtInt(Len(failed))
                                       \o " fichiers n'ont pas pu etre charges (voir logs).">> >>
                            ELSE <<>>)
              ELSE /\ dfs' = dfs
                   /\ log' = log
    /\ scen' = IF scen = Len(Scenarios) THEN scen ELSE scen + 1
    /\ pc' = AfterScenario
    /\ UNCHANGED <<prog, loadIn, loadOut, args, csv, df, filtered, cwdIsRoot, nfiles,
                   found, step, charts, out, dirs, exc>>

Loaded(d) == {sc \in ScenSet : d[sc].loaded}

\* the first loaded scenario after position k, 0 when there is none
NextLoaded(d, k) ==
    IF \E j \in (k + 1)..Len(Scenarios) : d[Scenarios[j]].loaded
    THEN CHOOSE j \in (k + 1)..Len(Scenarios) :
            /\ d[Scenarios[j]].loaded
            /\ \A h \in (k + 1)..(j - 1) : ~d[Scenarios[h]].loaded
    ELSE 0

\* the output directory is created before the loaded tables are looked at
A_Check_MkdirFirst ==
    /\ prog = "adr" /\ pc = "check"
    /\ dirs' = dirs \cup {"output"}
    /\ IF \A sc \in ScenSet : ~dfs[sc].loaded
       THEN /\ log' = Append(log, <<"error", "Aucun fichier de donnees trouve!">>)
            /\ pc' = "done"
            /\ scen' = scen
       ELSE /\ log' = log
            /\ scen' = CHOOSE j \in 1..Len(Scenarios) :
                          /\ dfs[Scenarios[j]].loaded
                          /\ \A h \in 1..(j - 1) : ~dfs[Scenarios[h]].loaded
            /\ pc' = "pdr_energy"
    /\ UNCHANGED <<prog, loadIn, loadOut, args, csv, df, filtered, cwdIsRoot, nfiles,
                   found, dfs, fails, step, charts, out, exc>>

\* lines 1859-1867
A_Check ==
    /\ prog = "adr" /\ pc = "check"
    /\ IF Loaded(dfs) = {}
       THEN /\ log' = Append(log, <<"error", "Aucun fichier de donnees trouve!">>)
            /\ pc' = "done"
            /\ dirs' = dirs
            /\ scen' = scen
       ELSE /\ log' = Append(log, <<"ok", FmtInt(Cardinality(Loaded(dfs)))
                                           \o " fichiers charges avec succes">>)
            /\ dirs' = dirs \cup {"output"}
            /\ scen' = NextLoaded(dfs, 0)
            /\ pc' = "pdr_energy"
    /\ UNCHANGED <<prog, loadIn, loadOut, args, csv, df, filtered, cwdIsRoot, nfiles,
                   found, dfs, fails, step, charts, out, exc>>

\* the steps of lines 1875-1931 in their order, each with the scenario whose
\* table it needs ("" for a step that runs in any case)
Steps ==
    << <<"metric_vs_x", "">>, <<"histograms", "">>, <<"comparison", "">>,
       <<"sigma_impact", "sigma">>, <<"sigma_mob0", "sigma">>,
       <<"traffic_interval", "intervalle_d_envoie">>,
       <<"traffic_mob0", "intervalle_d_envoie">>,
       <<"density_mob0", "density">>,
       <<"density_fixed", "">>, <<"traffic_fixed", "">>,
       <<"density_specific", "density">>, <<"sigma_specific", "sigma">>,
       <<"traffic_specific", "intervalle_d_envoie">>,
       <<"traffic_mobility33", "intervalle_d_envoie">>,
       <<"mobility_specific", "">>, <<"summary", "">>, <<"done", "">> >>

\* the first step after position k that main does not skip
StepAfter(k) ==
    Steps[CHOOSE j \in (k + 1)..Len(Steps) :
            /\ Steps[j][2] = "" \/ dfs[Steps[j][2]].loaded
            /\ \A h \in (k + 1)..(j - 1) : ~(Steps[h][2] = "" \/ dfs[Steps[h][2]].loaded)][1]

StepIdx(name) == CHOOSE j \in 1..Len(Steps) : Steps[j][1] = name

\* One call of a chart function from main: R is what the call did, d the
\* tables after it, nxt the step main goes to when the call returns.  The
\* function creates the output directory (e.g. line 134); an exception that
\* leaves the function ends main.
Call(name, R, d, nxt, sc) ==
    /\ prog = "adr" /\ pc = name
    /\ dirs' = dirs \cup {"output"}
    /\ out' = out \cup R.files
    /\ log' = log \o R.msgs
    /\ step' = R.events
    /\ charts' = R.charts
    /\ dfs' = d
    /\ exc' = R.exc
    /\ pc' = IF R.exc THEN "done" ELSE nxt
    /\ scen' = IF R.exc THEN scen ELSE sc
    /\ UNCHANGED <<prog, loadIn, loadOut, args, csv, df, filtered, cwdIsRoot, nfiles,
                   found, fails>>

Step(name, R, d) == Call(name, R, d, StepAfter(StepIdx(name)), scen)

Cur == Scenarios[scen]

\* lines 1871-1875: the loop over the loaded scenarios
A_PdrEnergy ==
    Call("pdr_energy", plot_pdr_energy_by_scenario(dfs[Cur].t, Cur), dfs, "efficiency", scen)

A_Efficiency ==
    Call("efficiency", plot_energy_efficiency(dfs[Cur].t, Cur),
         IF MissingCol(dfs[Cur].t, <<PDR, Energy>>) THEN dfs
         ELSE [dfs EXCEPT ![Cur].t = WithEfficiency(@)],
         "heatmap", scen)

A_Heatmap ==
    Call("heatmap", plot_heatmap_pdr(dfs[Cur].t, Cur), dfs,
         IF NextLoaded(dfs, scen) = 0 THEN "metric_vs_x" ELSE "pdr_energy",
         IF NextLoaded(dfs, scen) = 0 THEN scen ELSE NextLoaded(dfs, scen))

\* lines 1877-1882
A_MetricVsX  == Step("metric_vs_x", plot_per_scenario_metric_vs_x(dfs, Scenarios), dfs)
A_Histograms == Step("histograms", plot_histograms_per_scenario(dfs, Scenarios), dfs)

\* lines 1884-1886
A_Comparison == Step("comparison", plot_parameter_comparison(dfs, Scenarios), dfs)

\* lines 1889-1893
A_SigmaImpact == Step("sigma_impact", plot_sigma_impact(dfs["sigma"].t), dfs)
A_SigmaMob0   == Step("sigma_mob0", plot_sigma_impact_mobility0(dfs["sigma"].t), dfs)

\* lines 1895-1899
A_TrafficInterval ==
    Step("traffic_interval", plot_traffic_interval_analysis(dfs["intervalle_d_envoie"].t), dfs)
A_TrafficMob0 ==
    Step("traffic_mob0", plot_traffic_impact_mobility0(dfs["intervalle_d_envoie"].t), dfs)

\* lines 1901-1903
A_DensityMob0 == Step("density_mob0", plot_density_impact_mobility0(dfs["density"].t), dfs)

\* lines 1905-1911
A_DensityFixed ==
    Step("density_fixed", plot_density_impact_fixed_params(AllDf(dfs, Scenarios)), dfs)
A_TrafficFixed ==
    Step("traffic_fixed", plot_traffic_impact_fixed_params(AllDf(dfs, Scenarios)), dfs)

\* the table of a scenario after the function made its parameters numeric in
\* place (lines 1086-1089)
NumericInPlace(sc) == [dfs EXCEPT ![sc].t = ToNumericCols(@, NumericParams)]

\* lines 1913-1931
A_DensitySpecific ==
    Step("density_specific", plot_density_scenario_specific(dfs["density"].t),
         NumericInPlace("density"))
A_SigmaSpecific ==
    Step("sigma_specific", plot_sigma_scenario_specific(dfs["sigma"].t),
         NumericInPlace("sigma"))
A_TrafficSpecific ==
    Step("traffic_specific", plot_traffic_scenario_specific(dfs["intervalle_d_envoie"].t),
         NumericInPlace("intervalle_d_envoie"))
A_TrafficMobility33 ==
    Step("traffic_mobility33", plot_traffic_scenario_mobility33(dfs["intervalle_d_envoie"].t),
         NumericInPlace("intervalle_d_envoie"))

\* lines 1933-1935
A_MobilitySpecific ==
    Step("mobility_specific", plot_mobility_impact_specific_params(AllDf(dfs, Scenarios)), dfs)

\* lines 1937-1939
A_Summary == Step("summary", generate_summary_table(dfs, Scenarios), dfs)

NextAdr ==
    \/ A_Discover \/ A_Load \/ A_Check
    \/ A_PdrEnergy \/ A_Efficiency \/ A_Heatmap
    \/ A_MetricVsX \/ A_Histograms \/ A_Comparison
    \/ A_SigmaImpact \/ A_SigmaMob0 \/ A_TrafficInterval \/ A_TrafficMob0
    \/ A_DensityMob0 \/ A_DensityFixed \/ A_TrafficFixed
    \/ A_DensitySpecific \/ A_SigmaSpecific \/ A_TrafficSpecific
    \/ A_TrafficMobility33 \/ A_MobilitySpecific \/ A_Summary

(***************************************************************************)
(* C4.  In every line chart of plot_adr_final the y value drawn for an     *)
(* algorithm A at the value v of the grouping parameter is the arithmetic  *)
(* mean (the sum divided by the count) of the metric over exactly the rows *)
(* of the filtered subset whose alg is A and whose parameter equals v,     *)
(* missing metric values left out as pandas does; the subset is the rows   *)
(* of the source table that pass the function's filter, so that no row of  *)
(* another algorithm, of another parameter value or removed by the filter  *)
(* contributes.                                                            *)
(***************************************************************************)
\* the rows of t numbered in R, in their order
C4_Keep(t, R) == [t EXCEPT !.data = [k \in 1..Cardinality(R) |-> t.data[Kth(R, k)]]]

C4_Where(t, conds) ==
    C4_Keep(t, {r \in 1..Len(t.data) :
                  \A k \in 1..Len(conds) : CellEquals(t, r, conds[k].col, conds[k].val)})

\* the scenario a per-scenario chart file is named after
C4_ScenarioOf(c) ==
    CHOOSE sc \in ScenSet :
        c.file = "output/" \o sc \o "_" \o c.metric \o "_vs_" \o c.param \o ".png"

\* the rows a chart must be drawn from: the function's source table, reduced
\* by the function's filter
C4_Subset(c) ==
    LET all == AllDf(dfs, Scenarios)
        mob0 == Cond("MobilitySpeed", 0)
        num(sc) == ToNumericCols(dfs[sc].t, NumericParams)
        speed(sc) == ToNumericCols(dfs[sc].t, <<"MobilitySpeed">>)
    IN  CASE c.fn = "plot_density_impact_fixed_params" ->
               C4_Where(all, <<mob0, Cond("TrafficInterval", 3600), Cond("Sigma", 396)>>)
          [] c.fn = "plot_traffic_impact_fixed_params" ->
               C4_Where(all, <<mob0, Cond("NumDevices", 550), Cond("Sigma", 396)>>)
          [] c.fn = "plot_mobility_impact_specific_params" ->
               C4_Where(all, <<Cond("NumDevices",
                                    CHOOSE n \in {100, 550, 1000} :
                                        Contains(c.file, "_" \o FmtInt(n) \o "nodes")),
                               Cond("TrafficInterval", 3600), Cond("Sigma", 396)>>)
          [] c.fn = "plot_density_scenario_specific" ->
               C4_Where(num("density"),
                        <<mob0, Cond("TrafficInterval", 3600), Cond("Sigma", 396)>>)
          [] c.fn = "plot_sigma_scenario_specific" ->
               C4_Where(num("sigma"),
                        <<mob0, Cond("NumDevices", 1000), Cond("TrafficInterval", 3600)>>)
          [] c.fn \in {"plot_traffic_scenario_specific", "plot_traffic_scenario_mobility33"} ->
               C4_Where(num("intervalle_d_envoie"),
                        <<mob0, Cond("NumDevices", 1000), Cond("Sigma", 396)>>)
          [] c.fn = "plot_density_impact_mobility0" -> C4_Where(speed("density"), <<mob0>>)
          [] c.fn = "plot_traffic_impact_mobility0" ->
               C4_Where(speed("intervalle_d_envoie"), <<mob0>>)
          [] c.fn = "plot_sigma_impact_mobility0" -> C4_Where(speed("sigma"), <<mob0>>)
          [] c.fn = "plot_per_scenario_metric_vs_x" ->
               LET t == ToNumericCols(dfs[C4_ScenarioOf(c)].t, <<c.param, c.metric>>)
               IN  C4_Keep(t, {r \in 1..Len(t.data) :
                                 /\ CellOf(t, r, c.param).k = "num"
                                 /\ CellOf(t, r, c.metric).k = "num"})
          [] c.fn = "plot_pdr_energy_by_scenario" -> dfs[Cur].t
          [] c.fn = "plot_sigma_impact" -> dfs["sigma"].t
          [] c.fn = "plot_traffic_interval_analysis" -> dfs["intervalle_d_envoie"].t

\* the rows of the subset that belong to the point (A, v)
C4_Group(c, A, v) ==
    {r \in 1..Len(c.subset.data) :
        /\ CellOf(c.subset, r, "alg") = Txt(A)
        /\ CellOf(c.subset, r, c.param) = v}

RECURSIVE C4_Den(_, _, _)
C4_Den(t, R, metric) ==
    IF R = {} THEN 1
    ELSE LET r == CHOOSE q \in R : TRUE
         IN  CellOf(t, r, metric).d * C4_Den(t, R \ {r}, metric)

\* the sum of the metric over the rows R, times L
RECURSIVE C4_Sum(_, _, _, _)
C4_Sum(t, R, metric, L) ==
    IF R = {} THEN 0
    ELSE LET r == CHOOSE q \in R : TRUE
         IN  CellOf(t, r, metric).n * (L \div CellOf(t, r, metric).d)
             + C4_Sum(t, R \ {r}, metric, L)

\* y is the sum of the metric over the group divided by the count
C4_IsMean(c, pt) ==
    LET G == C4_Group(c, pt.alg, pt.x)
        V == {r \in G : CellOf(c.subset, r, c.metric).k = "num"}
        L == C4_Den(c.subset, V, c.metric)
    IN  /\ G # {}
        /\ pt.x # NaN
        /\ IF V = {} THEN pt.y = NaN
           ELSE /\ pt.y.k = "num"
                /\ pt.y.n * Cardinality(V) * L = pt.y.d * C4_Sum(c.subset, V, c.metric, L)

C4_GroupedMean ==
    \A c \in charts :
        /\ c.subset = C4_Subset(c)
        /\ \A pt \in c.points : C4_IsMean(c, pt)
        /\ \A a \in 1..Len(Algs) : \A r \in 1..Len(c.subset.data) :
              (CellOf(c.subset, r, "alg") = Txt(Algs[a]) /\ CellOf(c.subset, r, c.param) # NaN)
              => Cardinality({pt \in c.points :
                     pt.alg = Algs[a] /\ pt.x = CellOf(c.subset, r, c.param)}) = 1

\* the density chart with fixed parameters drew ADR-AVG at 550 devices as the
\* mean 85 of the two rows 90 and 80, from a table the filter had reduced
C4_Witness ==
    \E c \in charts :
        /\ c.fn = "plot_density_impact_fixed_params" /\ c.metric = PDR
        /\ [alg |-> "ADR-AVG", x |-> Num(550), y |-> Num(85)] \in c.points
        /\ \E pt \in c.points : pt.alg = "No-ADR"
        /\ Len(c.subset.data) < Len(AllDf(dfs, Scenarios).data)

(***************************************************************************)
(* C5.  A charting step whose filter finds no matching row prints a        *)
(* warning and returns, or skips that combination, without raising and     *)
(* without writing any chart file: plot_density_impact_mobility0 and the   *)
(* other mobility-0 charts, the *_fixed_params and *_scenario_specific     *)
(* functions, each combination of generate_all_plots, and the density      *)
(* script's main.                                                          *)
(***************************************************************************)
\* the chart files the step of an event writes when its filter finds rows
C5_Files(k) ==
    LET e == step[k]
        two(a, b) == {"output/" \o a \o ".png", "output/" \o b \o ".png"}
    IN  CASE e.fn = "generate_all_plots" ->
               LET c == Combinations[k]
               IN  plot_comparison_files(FmtFloat(c.mobility), FmtInt(c.interval),
                                         FmtFloat(c.loss), args.output)
                   \cup plot_bar_comparison_files(FmtFloat(c.mobility), FmtInt(c.interval),
                                                  FmtFloat(c.loss), args.output)
          [] e.fn = "main" ->
               plot_comparison_files(FmtFloat(args.mobility), FmtWhole(args.interval),
                                     FmtFloat(args.loss), args.output)
               \cup plot_bar_comparison_files(FmtFloat(args.mobility), FmtWhole(args.interval),
                                              FmtFloat(args.loss), args.output)
          [] e.fn = "plot_density_impact_mobility0" ->
               two("pdr_density_mob0", "energy_density_mob0")
          [] e.fn = "plot_traffic_impact_mobility0" ->
               two("pdr_traffic_mob0", "energy_traffic_mob0")
          [] e.fn = "plot_sigma_impact_mobility0" ->
               two("pdr_sigma_mob0", "energy_sigma_mob0")
          [] e.fn = "plot_density_impact_fixed_params" ->
               two("density_pdr_mobility0_traffic3600_sigma3.96",
                   "density_energy_mobility0_traffic3600_sigma3.96")
          [] e.fn = "plot_traffic_impact_fixed_params" ->
               two("traffic_pdr_mobility0_density550_sigma3.96",
                   "traffic_energy_mobility0_density550_sigma3.96")
          [] e.fn = "plot_density_scenario_specific" ->
               two("density_scenario_pdr_mobility0_traffic3600_sigma3.96",
                   "density_scenario_energy_mobility0_traffic3600_sigma3.96")
          [] e.fn = "plot_sigma_scenario_specific" ->
               two("sigma_scenario_pdr_mobility0_density1000_traffic3600",
                   "sigma_scenario_energy_mobility0_density1000_traffic3600")
          [] e.fn \in {"plot_traffic_scenario_specific", "plot_traffic_scenario_mobility33"} ->
               two("traffic_scenario_pdr_mobility0_density1000_sigma3.96",
                   "traffic_scenario_energy_mobility0_density1000_sigma3.96")
          [] e.fn = "plot_mobility_impact_specific_params" ->
               two("pdr_mobility_" \o e.key \o "nodes_3600s_396sigma",
                   "energy_mobility_" \o e.key \o "nodes_3600s_396sigma")
          [] OTHER -> {}

C5_Case(k) == step[k].empty /\ step[k].rows = 0

C5_EmptyFilterSkips ==
    \A k \in 1..Len(step) :
        C5_Case(k) =>
            /\ ~exc
            /\ step[k].files = {}
            /\ C5_Files(k) \cap out = {}
            /\ step[k].msg[1] \in {"warn", "SKIP", "ERREUR"}
            /\ \E j \in 1..Len(log) : log[j] = step[k].msg
            /\ (step[k].fn = "main" => pc = "done")

\* the three kinds of step met an empty filter: a mobility-0 chart, a
\* combination of generate_all_plots, the density script's main
C5_Witness ==
    /\ prog = "adr" /\ Len(step) = 1 /\ C5_Case(1)
    /\ step[1].fn = "plot_density_impact_mobility0"
    /\ Len(dfs["density"].t.data) > 0

(***************************************************************************)
(* C6.  When an input CSV file is missing the program prints a warning and *)
(* returns early without raising: for the density script's --csv path and  *)
(* for the per-scenario file discovery of plot_adr_final.                  *)
(***************************************************************************)
C6_Warned == \E j \in 1..Len(log) : log[j][1] \in {"warn", "notfound", "ERREUR"}

C6_MissingCsvWarns ==
    /\ (prog = "density" /\ ~csv.ok /\ pc # "start") => (~exc /\ pc = "done" /\ C6_Warned)
    /\ (prog = "adr" /\ pc = "check" /\ nfiles = 0) =>
          /\ ~exc
          /\ \A i \in 1..Len(Scenarios) :
                \E j \in 1..Len(log) :
                    /\ log[j][1] = "notfound"
                    /\ Contains(log[j][2], "'" \o Scenarios[i] \o "'")

(***************************************************************************)
(* C7.  In plot_adr_final main a failure while loading one CSV of a        *)
(* scenario is caught for that file only: the remaining files of the       *)
(* scenario are still loaded and the loop goes on to the next scenario;    *)
(* the scenario's table is the concatenation of exactly the files that     *)
(* loaded, in the order found; the scenario is in the loaded set if and    *)
(* only if at least one of its files loaded; no other scenario's table     *)
(* changes.                                                                *)
(***************************************************************************)
RECURSIVE C7_Tables(_)
C7_Tables(paths) ==
    IF Len(paths) = 0 THEN <<>>
    ELSE (IF Head(paths).file.ok THEN <<load_data(Head(paths).file)>> ELSE <<>>)
         \o C7_Tables(Tail(paths))

C7_LoadStep ==
    (prog = "adr" /\ pc = "load") =>
        LET sc == Scenarios[scen]
            tables == C7_Tables(found)
        IN  /\ dfs'[sc].loaded <=> (\E k \in 1..Len(found) : found[k].file.ok)
            /\ dfs'[sc].loaded => dfs'[sc].t = Concat(tables)
            /\ \A o \in ScenSet \ {sc} : dfs'[o] = dfs[o]
            /\ ~exc'
            /\ pc' = IF scen < Len(Scenarios) THEN "discover" ELSE "check"
            /\ scen < Len(Scenarios) => scen' = scen + 1

C8_FailureMessages ==
    {j \in 1..Len(log) :
        log[j][1] = "warn" /\ Contains(log[j][2], "n'ont pas pu etre charges")}

C8_EveryFailureLogged ==
    (prog = "adr" /\ pc \in {"discover", "load", "check"}) =>
        Cardinality(C8_FailureMessages) = Cardinality({sc \in ScenSet : fails[sc].failed > 0})

(***************************************************************************)
(* C9.  If no scenario yields a loaded table, plot_adr_final main prints   *)
(* an error and stops: it returns before the output directory is created   *)
(* and before any chart or summary file is written.                        *)
(***************************************************************************)
C9_Case ==
    /\ prog = "adr" /\ pc \notin {"discover", "load", "check"}
    /\ \A sc \in ScenSet : ~dfs[sc].loaded

C9_NoDataStops ==
    C9_Case =>
        /\ pc = "done" /\ ~exc
        /\ log[Len(log)][1] = "error"
        /\ dirs = {} /\ out = {} /\ charts = {}

\* main stopped although files were on disk: none of them could be read
C9_Witness == C9_Case /\ nfiles > 0 /\ pc = "done"

(***************************************************************************)
(* C10.  Whenever at least one scenario table is loaded, plot_adr_final    *)
(* main runs through every charting step and ends with                     *)
(* resume_performances.csv written into the output directory; no table     *)
(* load_data can produce, one labelled 'Unknown' included, makes the run   *)
(* stop before the summary is written.                                     *)
(***************************************************************************)
C10_SummaryWritten ==
    (prog = "adr" /\ pc = "done" /\ \E sc \in ScenSet : dfs[sc].loaded) =>
        /\ ~exc
        /\ "output/resume_performances.csv" \in out

(***************************************************************************)
(* C11.  Loaded rows are immutable: no charting function changes the table *)
(* it receives, so that after any sequence of the calls made by            *)
(* plot_adr_final main each scenario's table has the columns and the cell  *)
(* values it had right after loading.                                      *)
(***************************************************************************)
C11_TablesImmutable ==
    [][(prog = "adr" /\ pc \notin {"discover", "load", "check"}) => dfs' = dfs]_vars

(***************************************************************************)
(* C12.  After load_data returns the table has an alg column.  If the      *)
(* input, its names normalized, already had alg, no column is added and    *)
(* the values of alg are those of the input.  Otherwise, if one of         *)
(* Algorithm, algorithm, Algorithme, algorithme exists, alg equals row by  *)
(* row the first of them present in that order, whatever the file name.    *)
(* Only when none exists is the label taken from the file name, the same   *)
(* for every row.                                                          *)
(***************************************************************************)
\* the positions of the input columns whose normalized name is nm
C12_At(nm) == {i \in 1..Len(loadIn.columns) : NormalizeName(loadIn.columns[i]) = StrName(nm)}

C12_Present == {nm \in {"Algorithm", "algorithm", "Algorithme", "algorithme"} : C12_At(nm) # {}}

C12_First ==
    IF "Algorithm" \in C12_Present THEN "Algorithm"
    ELSE IF "algorithm" \in C12_Present THEN "algorithm"
    ELSE IF "Algorithme" \in C12_Present THEN "Algorithme"
    ELSE "algorithme"

C12_SameAs(nm) ==
    \A r \in 1..Len(loadIn.data) : \A i \in C12_At(nm) :
        CellOf(loadOut, r, "alg") = loadIn.data[r][i]

C12_Case == prog = "load" /\ pc = "done" /\ ~exc

C12_AlgPrecedence ==
    C12_Case =>
        /\ HasCol(loadOut, "alg")
        /\ Len(loadOut.data) = Len(loadIn.data)
        /\ IF C12_At("alg") # {}
           THEN Len(loadOut.columns) = Len(loadIn.columns) /\ C12_SameAs("alg")
           ELSE /\ Len(loadOut.columns) = Len(loadIn.columns) + 1
                /\ IF C12_Present # {} THEN C12_SameAs(C12_First)
                   ELSE \E v \in Range(known_algs) \cup {"Unknown"} :
                           /\ v = "Unknown" <=> NoKnownToken(loadIn.name)
                           /\ \A r \in 1..Len(loadOut.data) :
                                 CellOf(loadOut, r, "alg") = Txt(v)

\* a file named after ADR-MAX whose header lists algorithm before Algorithm:
\* alg is the Algorithm column
C12_Witness ==
    /\ C12_Case
    /\ loadIn.columns = <<StrName("algorithm"), StrName("Algorithm")>>
    /\ loadIn.name = "ADR-MAX.csv"
    /\ Len(loadIn.data) = 2
    /\ CellOf(loadOut, 1, "alg") = loadIn.data[1][2]
    /\ CellOf(loadOut, 1, "alg") # loadIn.data[1][1]
    /\ CellOf(loadOut, 1, "alg") # Txt("ADR-MAX")

(***************************************************************************)
(* C13.  find_all_summary_paths returns a list with no duplicate path, in  *)
(* which the paths keep their order of first discovery (the current        *)
(* directory, then resultsfinal, then resultsfinal2), and in which every   *)
(* path discovered by any of its searches appears.                         *)
(***************************************************************************)
\* the paths under which the searches see the files of the disk d
C13_Discovered(scenario, d, root) ==
    (IF d["cwd"] # "" THEN {FileAt(scenario, d["cwd"]).name} ELSE {})
    \cup UNION {IF d[b] = "" THEN {}
                ELSE {(repo_root \o "/" \o b \o "/summaries/" \o scenario \o "/"
                          \o FileAt(scenario, d[b]).name)}
                     \cup (IF root
                           THEN {(b \o "/summaries/" \o scenario \o "/"
                                     \o FileAt(scenario, d[b]).name)}
                           ELSE {}) :
                b \in {"resultsfinal", "resultsfinal2"}}

\* the place of a path in the order of the searches
C13_Rank(path) ==
    IF Contains(path, "resultsfinal2/") THEN 2
    ELSE IF Contains(path, "resultsfinal/") THEN 1 ELSE 0

C13_Good(paths, scenario, d, root) ==
    /\ \A i, j \in 1..Len(paths) : i # j => paths[i].path # paths[j].path
    /\ \A i, j \in 1..Len(paths) : i < j => C13_Rank(paths[i].path) <= C13_Rank(paths[j].path)
    /\ {paths[i].path : i \in 1..Len(paths)} = C13_Discovered(scenario, d, root)

\* whatever the disk holds when a scenario is looked up
C13_PathsUniqueOrdered ==
    (prog = "adr" /\ pc = "discover") =>
        \A d \in DiskViews(MaxFiles - nfiles) :
            C13_Good(find_all_summary_paths(Scenarios[scen], d, cwdIsRoot),
                     Scenarios[scen], d, cwdIsRoot)

\* run from the repository root with a file in resultsfinal2 and one in the
\* working directory: the glob and the recursive search both saw the former
\* under its relative and its absolute path, and three paths are returned
C13_Witness ==
    /\ prog = "adr" /\ pc = "load" /\ cwdIsRoot
    /\ Len(found) = 3
    /\ C13_Rank(found[1].path) = 0
    /\ found[2].path = "resultsfinal2/summaries/" \o Scenarios[scen] \o "/" \o found[2].file.name
    /\ found[3].path = repo_root \o "/" \o found[2].path

(***************************************************************************)
(* plot_adr_final.py: find_summary_path, lines 93-123, on its own.  The    *)
(* file system is the set out of the files and the set dirs of the folders *)
(* that exist, all relative to the working directory; the answer is left   *)
(* in found, empty for None.                                               *)
(***************************************************************************)
\* fnmatch of a name against the pattern parts[1]*parts[2]*...*parts[n]
Glob(name, parts) ==
    LET RECURSIVE Rest(_, _)
        Rest(s, ps) ==
            IF Len(ps) = 1 THEN EndsWith(s, ps[1])
            ELSE \E i \in 1..(Len(s) - Len(ps[1]) + 1) :
                    /\ SubSeq(s, i, i + Len(ps[1]) - 1) = ps[1]
                    /\ Rest(SubSeq(s, i + Len(ps[1]), Len(s)), Tail(ps))
    IN  IF Len(parts) = 1 THEN name = parts[1]
        ELSE /\ Len(name) >= Len(parts[1])
             /\ SubSeq(name, 1, Len(parts[1])) = parts[1]
             /\ Rest(SubSeq(name, Len(parts[1]) + 1, Len(name)), Tail(parts))

\* lines 1819-1824: the file name main's dict gives a scenario
files(scenario) == "summary_" \o scenario \o "_run1.csv"

\* the names a summaries/<scenario>/ folder may hold: the file asked for, one
\* of another run, one of another scenario's spelling, one that only the
\* recursive search matches
FolderNames(scenario) ==
    {files(scenario), "summary_" \o scenario \o "_run2.csv", "summary_old_run1.csv",
     scenario \o "_extra.csv"}

\* lines 93-123.  In a folder holding several matches glob yields them in the
\* file system's order: the first is any of them.
find_summary_path(scenario, filename, fs, folders) ==
    LET base(b) == b \o "/summaries"
        scen_dir(b) == base(b) \o "/" \o scenario
        In(b, pat) == {n \in FolderNames(scenario) :
                          (scen_dir(b) \o "/" \o n) \in fs /\ Glob(n, pat)}
        first(b) == In(b, <<"summary", scenario, "run", ".csv">>)
        second(b) == In(b, <<"summary_", "_run", ".csv">>)
        deep(b) == In(b, <<"", scenario, ".csv">>)
        Try(b) ==
            IF (scen_dir(b) \o "/" \o filename) \in fs
            THEN {scen_dir(b) \o "/" \o filename}
            ELSE IF scen_dir(b) \in folders /\ first(b) \cup second(b) # {}
            THEN {scen_dir(b) \o "/" \o n : n \in IF first(b) # {} THEN first(b) ELSE second(b)}
            ELSE IF base(b) \in folders
            THEN {scen_dir(b) \o "/" \o n : n \in deep(b)}
            ELSE {}
        hits == IF filename \in fs THEN {filename}
                ELSE IF Try("resultsfinal") # {} THEN Try("resultsfinal")
                ELSE Try("resultsfinal2")
    IN  {<<p>> : p \in hits} \cup (IF hits = {} THEN {<<>>} ELSE {})

\* the files and folders that may exist when the function is called
FindDisks(scenario) ==
    LET names == {files(scenario)}
                 \cup {(b \o "/summaries/" \o scenario \o "/" \o n) :
                          b \in {"resultsfinal", "resultsfinal2"}, n \in FolderNames(scenario)}
        parents(fs) ==
            UNION {IF \E n \in FolderNames(scenario) :
                         (b \o "/summaries/" \o scenario \o "/" \o n) \in fs
                   THEN {b \o "/summaries", b \o "/summaries/" \o scenario} ELSE {} :
                   b \in {"resultsfinal", "resultsfinal2"}}
    IN  {[fs |-> fs, folders |-> parents(fs) \cup extra] :
            fs \in SUBSET names,
            extra \in {{}, {"resultsfinal/summaries"},
                       {"resultsfinal2/summaries", "resultsfinal2/summaries/" \o scenario}}}

InitFind ==
    /\ prog = "find" /\ pc = "start"
    /\ scen \in 1..Len(Scenarios)
    /\ \E d \in FindDisks(Scenarios[scen]) : out = d.fs /\ dirs = d.folders
    /\ cwdIsRoot = TRUE /\ nfiles = 0 /\ found = <<>>
    /\ dfs = NoDfs /\ fails = NoFails /\ charts = {}
    /\ args = NoArgs /\ csv = NoFile /\ df = NoTable /\ filtered = NoTable
    /\ step = <<>> /\ log = <<>> /\ exc = FALSE
    /\ IdleLoad

\* find_summary_path(scenario, filename) returns
FindPath ==
    /\ prog = "find" /\ pc = "start"
    /\ found' \in find_summary_path(Scenarios[scen], files(Scenarios[scen]), out, dirs)
    /\ pc' = "done"
    /\ UNCHANGED <<prog, loadIn, loadOut, args, csv, df, filtered, cwdIsRoot, scen, nfiles,
                   dfs, fails, step, charts, out, dirs, log, exc>>

SpecFind == InitFind /\ [][FindPath]_vars

(***************************************************************************)
(* C14.  find_summary_path searches in this priority order and returns the *)
(* first hit: (1) the file name as given, relative to the current          *)
(* directory; (2) the exact file name under resultsfinal/summaries/<s>/ or *)
(* resultsfinal2/summaries/<s>/; (3) only then a glob match in those       *)
(* folders; it returns None when nothing is found and never raises for a   *)
(* missing folder.                                                         *)
(***************************************************************************)
C14_Exact ==
    {(b \o "/summaries/" \o Scenarios[scen] \o "/" \o files(Scenarios[scen])) :
        b \in {"resultsfinal", "resultsfinal2"}} \cap out

C14_PriorityOrder ==
    (prog = "find" /\ pc = "done") =>
        /\ ~exc
        /\ IF files(Scenarios[scen]) \in out THEN found = <<files(Scenarios[scen])>>
           ELSE IF C14_Exact # {} THEN Len(found) = 1 /\ found[1] \in C14_Exact
           ELSE IF out # {}
           THEN Len(found) = 1 /\ found[1] \in out
           ELSE found = <<>>

(***************************************************************************)
(* C15.  Density script with --all: a chart file is written for every      *)
(* combination of MobilitySpeed, TrafficInterval and MaxRandomLoss that    *)
(* has at least one row in the loaded CSV, plus a bar chart for each when  *)
(* --bar is given.                                                         *)
(***************************************************************************)
\* the rows of the CSV whose three parameters are numbers
C15_Rows ==
    {r \in 1..Len(df.data) :
        \A name \in {"MobilitySpeed", "TrafficInterval", "MaxRandomLoss"} :
            CellOf(df, r, name).k = "num"}

\* the charts written for the combination of row r
C15_Written(r) ==
    UNION {step[k].files \cap out :
              k \in {j \in 1..Len(step) :
                       /\ CellEquals(df, r, "MobilitySpeed", Combinations[j].mobility)
                       /\ CellEquals(df, r, "TrafficInterval", Combinations[j].interval)
                       /\ CellEquals(df, r, "MaxRandomLoss", Combinations[j].loss)}}

C15_Case == prog = "density" /\ pc = "done" /\ ~exc /\ ~args.list /\ args.all

C15_AllCombinations ==
    C15_Case =>
        \A r \in C15_Rows :
            Cardinality(C15_Written(r)) = IF args.bar THEN 2 ELSE 1

(***************************************************************************)
(* C16.  Density script with --list: the available parameter values are    *)
(* printed and the run ends; it never filters, never prints the summary    *)
(* table and never writes a chart file, whatever the other flags are.      *)
(***************************************************************************)
C16_Printed(text) == \E k \in 1..Len(log) : log[k][2] = text

C16_Case == prog = "density" /\ args.list /\ pc # "start" /\ ~exc

C16_ListOnly ==
    C16_Case =>
        /\ pc \in {"loaded", "done"}
        /\ pc = "done" => C16_Printed("Valeurs disponibles")
        /\ filtered = NoTable /\ step = <<>>
        /\ ~C16_Printed("Filtrage") /\ ~C16_Printed("Tableau Recapitulatif")
        /\ ~C16_Printed("Resume")
        /\ out = {} /\ dirs = {}

C16_Witness ==
    /\ C16_Case /\ pc = "done"
    /\ args.all /\ args.bar /\ args.output = "plots" /\ args.mobility = 3330
    /\ Len(df.data) = MaxRows
    /\ CellEquals(df, 1, "MobilitySpeed", 3330) /\ CellEquals(df, 1, "MaxRandomLoss", 0)
    /\ C16_ListOnly

(***************************************************************************)
(* C17.  plot_traffic_scenario_mobility33 builds its two charts only from  *)
(* rows with MobilitySpeed = 33.33, NumDevices = 1000 and Sigma = 3.96.    *)
(***************************************************************************)
C17_RowsOf(fn) == {ch.subset : ch \in {c \in charts : c.fn = fn}}

C17_Mobility33Rows ==
    \A t \in C17_RowsOf("plot_traffic_scenario_mobility33") :
        \A r \in 1..Len(t.data) :
            /\ CellEquals(t, r, "MobilitySpeed", 3333)
            /\ CellEquals(t, r, "NumDevices", 1000)
            /\ CellEquals(t, r, "Sigma", 396)

(***************************************************************************)
(* C18.  plot_sigma_scenario_specific builds its two charts only from rows *)
(* with MobilitySpeed = 0, NumDevices = 550 and TrafficInterval = 3600.    *)
(***************************************************************************)
C18_RowsOf(fn) == {ch.subset : ch \in {c \in charts : c.fn = fn}}

C18_SigmaRows ==
    \A t \in C18_RowsOf("plot_sigma_scenario_specific") :
        \A r \in 1..Len(t.data) :
            /\ CellEquals(t, r, "MobilitySpeed", 0)
            /\ CellEquals(t, r, "NumDevices", 550)
            /\ CellEquals(t, r, "TrafficInterval", 3600)

(***************************************************************************)
(* C19.  plot_mobility_impact_specific_params produces 3 PDR charts and 3  *)
(* energy charts: for each of the three configurations (NumDevices 100,    *)
(* 550, 1000 with TrafficInterval 3600 and Sigma 3.96) that has matching   *)
(* rows, the PDR file is written if and only if the energy file is         *)
(* written; a configuration without data is skipped with a warning and     *)
(* does not stop the remaining configurations.                             *)
(***************************************************************************)
C19_Configs == <<100, 550, 1000>>

C19_PdrFile(nd) == "output/pdr_mobility_" \o ToString(nd) \o "nodes_3600s_396sigma.png"

C19_EnergyFile(nd) == "output/energy_mobility_" \o ToString(nd) \o "nodes_3600s_396sigma.png"

\* the rows of the loaded tables that match the configuration
C19_Rows(nd) ==
    LET t == AllDf(dfs, Scenarios)
    IN  {r \in 1..Len(t.data) :
            /\ CellEquals(t, r, "NumDevices", nd)
            /\ CellEquals(t, r, "TrafficInterval", 3600)
            /\ CellEquals(t, r, "Sigma", 396)}

\* the matching rows that give a curve a point
C19_Drawn(nd) ==
    LET t == AllDf(dfs, Scenarios)
    IN  {r \in C19_Rows(nd) :
            /\ CellOf(t, r, "alg").s \in COLORS_keys
            /\ CellOf(t, r, "MobilitySpeed").k = "num"}

C19_Case ==
    /\ prog = "adr" /\ step # <<>>
    /\ step[1].fn = "plot_mobility_impact_specific_params"

C19_SixCharts ==
    C19_Case =>
        /\ ~exc
        /\ Len(step) = Len(C19_Configs)
        /\ \A k \in 1..Len(C19_Configs) :
              LET nd == C19_Configs[k]
              IN  /\ (C19_PdrFile(nd) \in out) <=> (C19_EnergyFile(nd) \in out)
                  /\ (C19_PdrFile(nd) \in out) <=> (C19_Drawn(nd) # {})
                  /\ C19_Rows(nd) = {} =>
                        /\ step[k].empty
                        /\ \E j \in 1..Len(log) :
                              log[j] = <<"warn", "Pas de donnees pour la configuration: "
                                                    \o ToString(nd)>>

\* the first configuration has no data, the two after it are drawn
C19_Witness ==
    /\ C19_Case /\ ~exc
    /\ C19_Rows(100) = {}
    /\ \A nd \in {550, 1000} : {C19_PdrFile(nd), C19_EnergyFile(nd)} \subseteq out

(***************************************************************************)
(* C20.  Every algorithm label that load_data can derive from a file name  *)
(* is one of the four canonical labels ADR-AVG, ADR-Lite, ADR-MAX, No-ADR  *)
(* (the only keys of COLORS and MARKERS) or 'Unknown'; underscore          *)
(* spellings in file names are mapped to the canonical hyphenated label.   *)
(***************************************************************************)
\* the label comes from the file name: the input has no label column
C20_Case ==
    /\ prog = "load" /\ pc = "done" /\ ~exc
    /\ \A i \in 1..Len(loadIn.columns) :
          NormalizeName(loadIn.columns[i]).v \notin
              {"alg", "Algorithm", "algorithm", "Algorithme", "algorithme"}

C20_Underscore ==
    [adr_avg |-> "ADR-AVG", adr_max |-> "ADR-MAX", no_adr |-> "No-ADR"]

C20_CanonicalLabels ==
    C20_Case =>
        \A r \in 1..Len(loadOut.data) :
            /\ CellOf(loadOut, r, "alg").s \in COLORS_keys \cup {"Unknown"}
            /\ \A u \in DOMAIN C20_Underscore :
                  (/\ Contains(Lower(loadIn.name), u)
                   /\ \A t \in KnownTokens \ {u} : ~Contains(Lower(loadIn.name), t))
                      => CellOf(loadOut, r, "alg").s = C20_Underscore[u]

(***************************************************************************)
(* C21.  Within one run of plot_adr_final main, no two charting steps      *)
(* write to the same output file name, so no chart written by an earlier   *)
(* step is overwritten by a later one.                                     *)
(***************************************************************************)
\* the files the step that leads to the next state writes
C21_Written ==
    UNION {step'[k].files : k \in 1..Len(step')}
    \cup {ch.file : ch \in charts'}
    \cup {log'[j][2] : j \in {i \in (Len(log) + 1)..Len(log') : log'[i][1] = "saved"}}

C21_NoOverwrite ==
    [][(prog = "adr" /\ pc \notin {"discover", "load", "check"}) =>
           C21_Written \cap out = {}]_vars

(***************************************************************************)
(* C22.  In one run of plot_adr_final main, each CSV file on disk is       *)
(* loaded at most once per scenario, so none of its rows appears twice in  *)
(* that scenario's concatenated table, including when the current          *)
(* directory is the repository root, where the relative and the absolute   *)
(* search bases denote the same folder.                                    *)
(***************************************************************************)
\* the file on disk a found path denotes: a relative path is resolved against
\* the working directory
C22_Resolve(path) ==
    IF Len(path) > 0 /\ SubSeq(path, 1, 1) = "/" THEN path
    ELSE (IF cwdIsRoot THEN repo_root ELSE "/elsewhere") \o "/" \o path

\* the found paths that are the first to denote their file
C22_FirstOfFile ==
    {k \in 1..Len(found) :
        \A j \in 1..(k - 1) : C22_Resolve(found[j].path) # C22_Resolve(found[k].path)}

RECURSIVE C22_RowsOf(_)
C22_RowsOf(K) ==
    IF K = {} THEN 0
    ELSE LET k == CHOOSE k \in K : TRUE
         IN  (IF found[k].file.ok THEN Len(found[k].file.data) ELSE 0)
             + C22_RowsOf(K \ {k})

C22_LoadStep ==
    (prog = "adr" /\ pc = "load") =>
        /\ C22_FirstOfFile = 1..Len(found)
        /\ Len(dfs'[Scenarios[scen]].t.data) = C22_RowsOf(C22_FirstOfFile)

C22_LoadedOnce == [][C22_LoadStep]_vars

(***************************************************************************)
(* C23.  generate_summary_table produces exactly one row per pair          *)
(* (scenario, algorithm label occurring in that scenario's table),         *)
(* scenarios in the order of the input dictionary, so the row count is the *)
(* sum over scenarios of the number of distinct labels; the table it       *)
(* returns is the one it writes to resume_performances.csv.                *)
(***************************************************************************)
\* the labels occurring in the table of a scenario
C23_Labels(sc) ==
    IF dfs[sc].loaded
    THEN {CellOf(dfs[sc].t, r, "alg").s : r \in 1..Len(dfs[sc].t.data)}
    ELSE {}

RECURSIVE C23_Count(_)
C23_Count(k) ==
    IF k > Len(Scenarios) THEN 0
    ELSE Cardinality(C23_Labels(Scenarios[k])) + C23_Count(k + 1)

\* the position of a scenario in the dictionary
C23_Pos(sc) == CHOOSE k \in 1..Len(Scenarios) : Scenarios[k] = sc

C23_Case ==
    /\ prog = "adr" /\ pc = "done" /\ ~exc
    /\ "output/resume_performances.csv" \in out

C23_SummaryRows ==
    C23_Case =>
        /\ Len(step) = C23_Count(1)
        /\ \A k \in 1..Len(step) :
              /\ step[k].fn = "generate_summary_table"
              /\ step[k].msg[2] \in C23_Labels(step[k].key)
              /\ step[k].files = {"output/resume_performances.csv"}
        /\ \A sc \in ScenSet : \A a \in C23_Labels(sc) :
              Cardinality({k \in 1..Len(step) :
                              step[k].key = sc /\ step[k].msg[2] = a}) = 1
        /\ \A j, k \in 1..Len(step) :
              j < k => C23_Pos(step[j].key) <= C23_Pos(step[k].key)

\* two scenarios loaded, the first with two labels over three records
C23_Witness ==
    /\ C23_Case
    /\ Len(step) = 3
    /\ step[1].key # step[3].key
    /\ step[1].key = step[2].key /\ step[1].msg[2] # step[2].msg[2]
    /\ Len(dfs[step[1].key].t.data) = 3

Init == InitDensity \/ InitAdr

Next == NextDensity \/ NextAdr

Spec == Init /\ [][Next]_vars

=============================================================================
